---- MODULE Spec2Model ----
(***************************************************************************)
(* Verification model of the mjpt1/vpn tunnel core:                        *)
(*   - the AEAD record layer (server/core/encryption.py and the identical  *)
(*     client/core/encryption.py),                                         *)
(*   - the server session core (auth_handler.py, session_manager.py,       *)
(*     tunnel_server.py, database/session_repo.py, database/user_repo.py), *)
(*   - the client connection engine (tunnel_client.py, auto_reconnect.py). *)
(*                                                                         *)
(* Byte strings are modelled symbolically.  A record emitted by encrypt is *)
(* the tuple of everything that determines its bytes: the 8-byte counter   *)
(* header, and the key, nonce counter, nonce timestamp and plaintext that  *)
(* went into ChaCha20-Poly1305.  The Poly1305 tag verifies exactly when    *)
(* the verifier uses the same key and the same 12-byte nonce.  Keys made   *)
(* by os.urandom, HKDF and SHA-256 are distinct symbolic terms.            *)
(***************************************************************************)
EXTENDS Integers, Sequences, FiniteSets, TLC

(***************************************************************************)
(* Program constants                                                       *)
(***************************************************************************)
REPLAY_WINDOW_SIZE == 64
MIN_RECORD_SIZE == 24
TAG_SIZE == 16
COUNTER_SIZE == 8
MIN_IP_HEADER_SIZE == 20
MAX_PACKET_SIZE == 1500
POOL_SIZE == 253
FIRST_HOST == 2

(***************************************************************************)
(* Bounds of the model                                                     *)
(***************************************************************************)
\* send_packet calls made concurrently on one tunnel
MaxSenders == 2
\* payloads of every content up to MaxLen bytes are framed
MaxLen == 2
\* unframe calls on one stream
MaxUnframes == 3
\* records one instance encrypts over its life, key rotations included
MaxLifetimeSend == 3
\* counters 0..NearCtrs, and the counters at the window edges, reach decrypt
NearCtrs == 1
\* an AEAD instance emits at most MaxSend records
MaxSend == 2
\* replay_attacks_blocked is followed up to MaxBlocked
MaxBlocked == 1

None == "none"
\* Python None where a packet (bytes) is expected
NoPacket == [ver |-> 0, len |-> -1]

(***************************************************************************)
(* IP packets: what validate_packet looks at is the length and the version *)
(* nibble of the first byte.                                               *)
(***************************************************************************)
EmptyPlaintext == [ver |-> 0, len |-> 0]
Ipv4Echo == [ver |-> 4, len |-> 28]
Packets ==
    { Ipv4Echo,
      [ver |-> 6, len |-> MAX_PACKET_SIZE],
      [ver |-> 4, len |-> MIN_IP_HEADER_SIZE - 1],
      [ver |-> 4, len |-> MAX_PACKET_SIZE + 1],
      [ver |-> 5, len |-> MIN_IP_HEADER_SIZE],
      EmptyPlaintext }

validate_packet(packet) ==
    IF packet.len < MIN_IP_HEADER_SIZE THEN FALSE
    ELSE IF packet.len > MAX_PACKET_SIZE THEN FALSE
    ELSE IF packet.ver \notin {4, 6} THEN FALSE
    ELSE TRUE

\* process_inbound / process_outbound: the packet itself, or None
process_packet(packet) == IF validate_packet(packet) THEN packet ELSE NoPacket

(***************************************************************************)
(* AEAD record layer                                                       *)
(***************************************************************************)
\* HKDF-SHA256(master, salt = KDF_INFO, context)
\* 32-byte keys as terms: where the bytes come from (a pre-shared key, an
\* os.urandom draw, a SHA-256 digest), which one, and for a digest of
\* token + password the password
KeyTerm(kind, id, pw) == [kind |-> kind, id |-> id, pw |-> pw]
NoKey == KeyTerm("none", 0, "")

derive_key(master_key, context) == <<"hkdf", master_key, context>>

\* EncryptionHandler.__init__
NewHandler(master_key) ==
    [ master_key |-> master_key,
      session_key |-> derive_key(master_key, "session_key"),
      send_counter |-> 0,
      highest_recv_counter |-> 0,
      recv_bitmap |-> {},
      packets_encrypted |-> 0,
      packets_decrypted |-> 0,
      replay_attacks_blocked |-> 0 ]

\* The bytes [8B counter | ciphertext | 16B tag] of one record.
Record(hdr, key, nctr, nts, pt) ==
    [ len |-> COUNTER_SIZE + pt.len + TAG_SIZE,
      hdr |-> hdr, key |-> key, nctr |-> nctr, nts |-> nts, pt |-> pt ]

\* A byte string shorter than a record, of n bytes.
ShortRecord(n) ==
    [ len |-> n, hdr |-> 0, key |-> None, nctr |-> 0, nts |-> 0,
      pt |-> EmptyPlaintext ]

\* encrypt: nonce = send_counter || (wall clock seconds & 0xFFFFFFFF)
encrypt(h, plaintext, timestamp) ==
    [ h |-> [h EXCEPT !.send_counter = @ + 1, !.packets_encrypted = @ + 1],
      out |-> Record(h.send_counter, h.session_key, h.send_counter,
                     timestamp, plaintext) ]

\* recv_bitmap is a Python integer; it is held as the set of its 1-bits.
BitSet(bitmap, d) == d \in bitmap
ShiftLeft(bitmap, d) == { b + d : b \in bitmap }

\* as _check_replay, with a window one counter wider
check_replay_wide(h, counter) ==
    IF counter + REPLAY_WINDOW_SIZE < h.highest_recv_counter THEN FALSE
    ELSE IF counter > h.highest_recv_counter THEN TRUE
    ELSE IF h.highest_recv_counter - counter > REPLAY_WINDOW_SIZE THEN FALSE
    ELSE IF BitSet(h.recv_bitmap, h.highest_recv_counter - counter) THEN FALSE
    ELSE TRUE

_check_replay(h, counter) ==
    IF counter + REPLAY_WINDOW_SIZE < h.highest_recv_counter THEN FALSE
    ELSE IF counter > h.highest_recv_counter THEN TRUE
    ELSE IF h.highest_recv_counter - counter >= REPLAY_WINDOW_SIZE THEN FALSE
    ELSE IF BitSet(h.recv_bitmap, h.highest_recv_counter - counter) THEN FALSE
    ELSE TRUE

\* as _update_replay_window, with the shift of the window left out
update_replay_window_noshift(h, counter) ==
    IF counter > h.highest_recv_counter
    THEN [h EXCEPT !.recv_bitmap = {0}, !.highest_recv_counter = counter]
    ELSE [h EXCEPT !.recv_bitmap = @ \cup {h.highest_recv_counter - counter}]

_update_replay_window(h, counter) ==
    IF counter > h.highest_recv_counter
    THEN [h EXCEPT
            !.recv_bitmap =
                IF counter - h.highest_recv_counter < REPLAY_WINDOW_SIZE
                THEN ShiftLeft(@, counter - h.highest_recv_counter) \cup {0}
                ELSE {0},
            !.highest_recv_counter = counter]
    ELSE [h EXCEPT !.recv_bitmap = @ \cup {h.highest_recv_counter - counter}]

\* rekey: a new master key, the session key derived from it, and the send
\* counter back at 0; the receive window is kept
rekey(h, new_master_key) ==
    [h EXCEPT !.master_key = new_master_key,
              !.session_key = derive_key(new_master_key, "session_key"),
              !.send_counter = 0]

\* decrypt_and_verify under (session_key, counter || 0)
TagVerifies(h, rec, timestamp) ==
    /\ rec.key = h.session_key
    /\ rec.nctr = rec.hdr
    /\ rec.nts = timestamp

\* as decrypt, with the replay window advanced before the tag is verified
decrypt_window_first(h, rec) ==
    IF rec.len < MIN_RECORD_SIZE
    THEN [h |-> h, res |-> "DecryptionError", pt |-> NoPacket]
    ELSE IF ~_check_replay(h, rec.hdr)
    THEN [h |-> [h EXCEPT !.replay_attacks_blocked = @ + 1],
          res |-> "ReplayAttackError", pt |-> NoPacket]
    ELSE IF ~TagVerifies(h, rec, 0)
    THEN [h |-> _update_replay_window(h, rec.hdr),
          res |-> "DecryptionError", pt |-> NoPacket]
    ELSE [h |-> [_update_replay_window(h, rec.hdr)
                    EXCEPT !.packets_decrypted = @ + 1],
          res |-> "ok", pt |-> rec.pt]

\* decrypt: [h |-> handler after the call, res |-> "ok" or the error raised,
\*           pt |-> plaintext returned]
decrypt(h, rec) ==
    IF rec.len < MIN_RECORD_SIZE
    THEN [h |-> h, res |-> "DecryptionError", pt |-> NoPacket]
    ELSE IF ~_check_replay(h, rec.hdr)
    THEN [h |-> [h EXCEPT !.replay_attacks_blocked = @ + 1],
          res |-> "ReplayAttackError", pt |-> NoPacket]
    ELSE IF ~TagVerifies(h, rec, 0)
    THEN [h |-> h, res |-> "DecryptionError", pt |-> NoPacket]
    ELSE [h |-> [_update_replay_window(h, rec.hdr)
                    EXCEPT !.packets_decrypted = @ + 1],
          res |-> "ok", pt |-> rec.pt]

(***************************************************************************)
(* State                                                                   *)
(***************************************************************************)
VARIABLES
    \* record layer on its own: a sending and a receiving instance
    enc,        \* [Inst -> EncryptionHandler]
    wire,       \* records the sending instance has emitted
    last,       \* the last encrypt/decrypt call: instance, record, result
    accepted,   \* history: counters decrypt has accepted, per instance
    \* stream layer on its own
    tx,         \* one tunnel's send_packet calls and what its writer holds
    fr,         \* a byte stream of frames and the unframe calls on it
    sb,         \* a StreamBuffer fed a stream of frames chunk by chunk
    codec,      \* a control message and what MessageFormat.unpack made of it
    \* server
    db,             \* sessions table: sequence of rows, row id = index
    hs,             \* per connection: the _handle_client_connection task
    sess,           \* per connection: its ClientSession object
    sessions,       \* SessionManager.sessions: token -> connection
    sessions_by_ip, \* SessionManager.sessions_by_ip: virtual IP -> connection
    stream,         \* per connection: frames in flight towards the server
    peer,           \* per connection: the client at the other end
    srvLast,        \* the last frame the data-plane loop handled
    framesLeft,     \* frames that may still be put on the streams
    connsLeft,      \* connections the listener will still accept
    srv,            \* the TunnelServer: running, listener, tasks, stop()
    tc,             \* the TunnelClient: is_connected, writer
    ar,             \* its AutoReconnect controller
    task,           \* the client's asyncio tasks, each at an await or done
    rxEnd,          \* how the last receive loop ended and what followed
    dialsLeft,      \* _connect_internal calls that may still start
    cm,             \* the ConnectionManager: state
    hist            \* history of connect attempts, sleeps and keepalives

aeadVars == <<enc, wire, last, accepted, tx, fr, sb, codec>>
serverVars == <<db, hs, sess, sessions, sessions_by_ip, stream, peer,
                srvLast, framesLeft, connsLeft, srv>>
clientVars == <<tc, ar, task, rxEnd, dialsLeft, cm, hist>>
vars == <<enc, wire, last, accepted, tx, fr, sb, codec,
          db, hs, sess, sessions, sessions_by_ip, stream, peer,
          srvLast, framesLeft, connsLeft, srv, tc, ar, task, rxEnd,
          dialsLeft, cm, hist>>

(***************************************************************************)
(* Server: tables, session objects, registry                               *)
(***************************************************************************)
\* connections the listener accepts in a run of the session core
NConn == 2
\* connections accepted in a run that ends with stop()
MaxStopConns == 1
\* frames put on the stream in a run of one connection's data plane
MaxFrames == 2
\* connections accepted in a run on a nearly exhausted address pool
MaxPoolConns == 2

Conns == 1..NConn

\* users table (UserRepository.create_user): alice and bob are active,
\* carol is disabled
argon2_hash(password) == <<"argon2", password>>
Users ==
    [ alice |-> [id |-> 1, password_hash |-> argon2_hash("secret"),
                 is_active |-> TRUE, max_sessions |-> 2],
      bob   |-> [id |-> 2, password_hash |-> argon2_hash("hunter2"),
                 is_active |-> TRUE, max_sessions |-> 1],
      carol |-> [id |-> 3, password_hash |-> argon2_hash("secret"),
                 is_active |-> FALSE, max_sessions |-> 2] ]
Usernames == {"alice", "bob", "carol", "mallory"}
Passwords == {"secret", "hunter2"}

EmptyMap == [x \in {} |-> 0]
Put(f, k, v) == [x \in DOMAIN f \cup {k} |-> IF x = k THEN v ELSE f[x]]
DropKeys(f, ks) == [x \in DOMAIN f \ ks |-> f[x]]

\* Control messages: [4B magic | 2B length | 1B type | msgpack payload]
PROTOCOL_VERSION == "1.0.0"
MAGIC_BYTES == "IRVP"
MessageTypes == {"AUTH_REQUEST", "AUTH_SUCCESS", "AUTH_FAILURE", "PING",
                 "PONG", "DISCONNECT", "ERROR"}

HEADER_SIZE == 7

\* len(msgpack.packb(payload)), counted as one unit per field of the map
packb_len(payload) == Cardinality(DOMAIN payload)

\* MessageFormat.pack, for a payload within MAX_MESSAGE_SIZE: the magic
\* bytes, the declared payload length, the type byte and the payload with
\* the version field added; nbytes is len() of the byte string
pack(message_type, payload) ==
    LET with_version == Put(payload, "version", PROTOCOL_VERSION) IN
    [ nbytes |-> HEADER_SIZE + packb_len(with_version),
      magic |-> MAGIC_BYTES,
      length |-> packb_len(with_version),
      message_type |-> message_type,
      payload |-> with_version ]

NoMessage == [res |-> "ProtocolError", message_type |-> None,
              payload |-> EmptyMap]

\* MessageFormat.unpack: the size, the magic bytes, the type byte and the
\* declared length are verified in this order and the payload is
\* deserialised (msgpack fails on a payload cut short by the declared
\* length); every failure raises ProtocolError, and the payload's fields
\* are returned as they are
unpack(data) ==
    IF data.nbytes < HEADER_SIZE THEN NoMessage
    ELSE IF data.magic # MAGIC_BYTES THEN NoMessage
    ELSE IF data.message_type \notin MessageTypes THEN NoMessage
    ELSE IF data.nbytes < HEADER_SIZE + data.length THEN NoMessage
    ELSE IF data.length # packb_len(data.payload) THEN NoMessage
    ELSE [res |-> "ok", message_type |-> data.message_type,
          payload |-> data.payload]

\* MessageFormat.create_auth_request
create_auth_request(username, password_hash, client_version) ==
    pack("AUTH_REQUEST", [username |-> username,
                          password_hash |-> password_hash,
                          client_version |-> client_version])
\* MessageFormat.create_ping
create_ping == pack("PING", [timestamp |-> 0])

\* a message as a peer built with another PROTOCOL_VERSION packs it
PackedBy(version, data) == [data EXCEPT !.payload.version = version]
Versions == {PROTOCOL_VERSION, "2.0.0"}

\* what a peer can send first on a new connection
AuthRequests ==
    { PackedBy(v, create_auth_request(u, p, "1.0.0")) :
          u \in Usernames, p \in Passwords, v \in Versions }
FirstMessages ==
    AuthRequests \cup
    { create_ping, [create_ping EXCEPT !.magic = "HTTP"] }

\* no message decoded yet
NoDecode == [data |-> pack("PING", EmptyMap), kind |-> None, called |-> FALSE,
             got |-> NoMessage]

\* get_next_client_ip(i) = "10.8.0.{i+2}"
get_next_client_ip(i) == <<10, 8, 0, i + FIRST_HOST>>
NoIp == <<0, 0, 0, 0>>
NoToken == <<"token", 0>>

\* SessionRepository.get_active_sessions
ActiveRows(d) == { i \in 1..Len(d) : d[i].is_active }

\* get_active_session_count(user_id)
get_active_session_count(d, user_id) ==
    Cardinality({ i \in ActiveRows(d) : d[i].user_id = user_id })

\* AuthHandler._load_assigned_ips
_load_assigned_ips(d) == { d[i].assigned_ip : i \in ActiveRows(d) }

\* UserRepository.authenticate: the username when it verifies, else None
authenticate(username, password) ==
    IF username \notin DOMAIN Users THEN None
    ELSE IF ~Users[username].is_active THEN None
    ELSE IF Users[username].password_hash # argon2_hash(password) THEN None
    ELSE username

\* UserRepository.can_create_session
can_create_session(d, username) ==
    /\ Users[username].is_active
    /\ get_active_session_count(d, Users[username].id)
          < Users[username].max_sessions

\* AuthHandler._assign_ip: the indices whose address is not in assigned_ips
FreeIndices(assigned_ips) ==
    { i \in 0..(POOL_SIZE - 1) : get_next_client_ip(i) \notin assigned_ips }
Lowest(S) == CHOOSE i \in S : \A j \in S : i <= j
_assign_ip(assigned_ips) == get_next_client_ip(Lowest(FreeIndices(assigned_ips)))

\* SessionRepository.create_session: the row added to the table
NewRow(d, username, assigned_ip) ==
    [ token |-> <<"token", Len(d) + 1>>,
      user_id |-> Users[username].id,
      assigned_ip |-> assigned_ip,
      encryption_key |-> KeyTerm("urandom", Len(d) + 1, ""),
      is_active |-> TRUE ]

\* AuthHandler.authenticate_user, as run by a handler whose AuthHandler holds
\* the set assigned_ips: the outcome, the table and the set afterwards
authenticate_user(d, assigned_ips, username, password) ==
    IF authenticate(username, password) = None
    THEN [res |-> "InvalidCredentialsError", db |-> d, ips |-> assigned_ips]
    ELSE IF ~can_create_session(d, username)
    THEN [res |-> "SessionLimitError", db |-> d, ips |-> assigned_ips]
    ELSE IF FreeIndices(assigned_ips) = {}
    THEN [res |-> "RuntimeError", db |-> d, ips |-> assigned_ips]
    ELSE [res |-> "ok",
          db |-> Append(d, NewRow(d, username, _assign_ip(assigned_ips))),
          ips |-> assigned_ips \cup {_assign_ip(assigned_ips)}]

\* SessionRepository.get_by_token: the row id, 0 when there is none
get_by_token(d, token) ==
    IF \E i \in 1..Len(d) : d[i].token = token
    THEN CHOOSE i \in 1..Len(d) : d[i].token = token
    ELSE 0

\* SessionRepository.terminate_session on the row of a token
terminate_session_skip(d, token) == d
terminate_session(d, token) ==
    IF get_by_token(d, token) = 0 THEN d
    ELSE [d EXCEPT ![get_by_token(d, token)].is_active = FALSE]

\* SessionRepository.cleanup_expired_sessions, expired being the rows whose
\* expires_at lies before utcnow()
cleanup_expired_sessions(d, expired) ==
    [ i \in 1..Len(d) |->
        IF d[i].is_active /\ i \in expired
        THEN [d[i] EXCEPT !.is_active = FALSE] ELSE d[i] ]

\* ClientSession.__init__
NoSession ==
    [ exists |-> FALSE, token |-> NoToken, user_id |-> 0,
      assigned_ip |-> NoIp, is_active |-> FALSE,
      encryption |-> NewHandler(NoKey), read_buffer |-> <<>> ]
NewSession(row) ==
    [ exists |-> TRUE, token |-> row.token, user_id |-> row.user_id,
      assigned_ip |-> row.assigned_ip, is_active |-> TRUE,
      encryption |-> NewHandler(row.encryption_key), read_buffer |-> <<>> ]

\* SessionManager.add_session
add_session_tokens(m, c, s) == Put(m, s.token, c)
add_session_ips(m, c, s) == Put(m, s.assigned_ip, c)

\* SessionManager.remove_session for each token of a set, in turn: the
\* tokens found, the two indices and the session objects afterwards
Found(m, tokens) == tokens \cap DOMAIN m
remove_session_tokens(m, tokens) == DropKeys(m, tokens)
remove_session_ips(m, mi, ss, tokens) ==
    DropKeys(mi, { ss[m[t]].assigned_ip : t \in Found(m, tokens) })
remove_session_objects(m, ss, tokens) ==
    [ c \in DOMAIN ss |->
        IF \E t \in Found(m, tokens) : m[t] = c
        THEN [ss[c] EXCEPT !.is_active = FALSE] ELSE ss[c] ]
\* ClientSession.close closes the writer of the connection
remove_session_writers(m, h, tokens) ==
    [ c \in DOMAIN h |->
        IF \E t \in Found(m, tokens) : m[t] = c
        THEN [h[c] EXCEPT !.writer_closing = TRUE] ELSE h[c] ]

\* SessionManager.get_session / get_session_by_ip: the connection whose
\* ClientSession is returned, 0 for None
get_session(token) == IF token \in DOMAIN sessions THEN sessions[token] ELSE 0
get_session_by_ip(ip) ==
    IF ip \in DOMAIN sessions_by_ip THEN sessions_by_ip[ip] ELSE 0

\* TunnelClient._authenticate: temp_key = sha256(session_token + password)
client_master_key(token, password) == KeyTerm("sha256", token[2], password)

NoPeer == [password |-> None, session_token |-> NoToken,
           assigned_ip |-> NoIp, has_encryption |-> FALSE,
           encryption |-> NewHandler(NoKey)]

\* the last frame a data-plane loop took from its buffer: connection, frame,
\* outcome, how many frames were taken so far, and the errors logged before
NoFrame == [conn |-> 0, rec |-> ShortRecord(0), res |-> None, n |-> 0,
            errs |-> {}]

\* TunnelServer after start(): listening, both background tasks asleep
ServerStarted ==
    [ running |-> TRUE, listening |-> TRUE, cleanup |-> "sleep",
      statistics |-> "sleep", stop |-> None ]

ServerOver(rows) ==
    /\ srv = ServerStarted
    /\ db = rows
    /\ hs = [c \in Conns |->
               [pc |-> "free", assigned_ips |-> {}, token |-> NoToken,
                writer_closing |-> FALSE, reply |-> None]]
    /\ sess = [c \in Conns |-> NoSession]
    /\ sessions = EmptyMap
    /\ sessions_by_ip = EmptyMap
    /\ stream = [c \in Conns |-> <<>>]
    /\ peer = [c \in Conns |-> NoPeer]
    /\ srvLast = NoFrame

\* the server started on an empty sessions table
ServerConstructed == ServerOver(<<>>)

(***************************************************************************)
(* Client: TunnelClient and its AutoReconnect controller                   *)
(***************************************************************************)
RECONNECT_INITIAL_DELAY == 1
RECONNECT_MAX_DELAY == 30
RECONNECT_BACKOFF_MULTIPLIER == 2

KEEPALIVE_INTERVAL == 15
KEEPALIVE_TIMEOUT == 30

\* _connect_internal calls in one run
MaxDials == 6
\* keepalive periods of one connection
MaxWakes == 3

Min(a, b) == IF a <= b THEN a ELSE b

\* AutoReconnect.__init__
NewAutoReconnect ==
    [ state |-> "idle", is_enabled |-> FALSE,
      current_delay |-> RECONNECT_INITIAL_DELAY,
      reconnect_attempts |-> 0, total_reconnects |-> 0 ]

\* AutoReconnect._increase_backoff
increase_backoff_uncapped(a) ==
    [a EXCEPT !.current_delay = @ * RECONNECT_BACKOFF_MULTIPLIER]
_increase_backoff(a) ==
    [a EXCEPT !.current_delay =
        Min(@ * RECONNECT_BACKOFF_MULTIPLIER, RECONNECT_MAX_DELAY)]

\* AutoReconnect.on_connected
on_connected(a) ==
    [a EXCEPT !.reconnect_attempts = 0,
              !.current_delay = RECONNECT_INITIAL_DELAY,
              !.state = "connected"]

\* the tail of _reconnect_loop: "if not self.is_enabled: IDLE"
loop_exit(a) == IF a.is_enabled THEN a ELSE [a EXCEPT !.state = "idle"]

\* a task object that exists and is not done()
Pending(pc) == pc \notin {"none", "done"}

NoRxEnd == [by |-> None, cleaned |-> FALSE, notified |-> FALSE]

\* ConnectionManager.__init__
ManagerConstructed == [state |-> "disconnected"]

\* what the client has done so far: the last finished connect attempt, the
\* failed attempts and the sleeps of the current reconnect loop, whether
\* the controller was cancelled, the keepalive periods and Ping messages
\* of the current connection, and whether a start_reconnect call found a
\* reconnect task in progress
NoHistory ==
    [ last |-> [by |-> None, outcome |-> None],
      fails |-> 0, slept |-> << >>, cancel |-> None,
      wakes |-> 0, pings |-> 0, refused |-> FALSE ]

\* TunnelClient.__init__
ClientConstructed ==
    /\ tc = [is_connected |-> FALSE, writer |-> "none"]
    /\ ar = NewAutoReconnect
    /\ task = [user |-> "idle", receive |-> "none", keepalive |-> "none",
               starter |-> "none", reconnect |-> "none", stopper |-> "none"]
    /\ rxEnd = NoRxEnd
    /\ cm = ManagerConstructed
    /\ hist = NoHistory

(***************************************************************************)
(* Stream layer: frames and the calls that write them                      *)
(***************************************************************************)
\* send_packet calls in flight on one tunnel
Senders == 1..MaxSenders

\* no call made yet, nothing written
NoSends ==
    [ call |-> [k \in Senders |->
                    [pc |-> "idle", result |-> None, framed |-> 0]],
      buffer |-> <<>>,
      bytes_sent |-> 0,
      packets_sent |-> 0 ]

\* Optional[bytes]
NoBytes == [is_none |-> TRUE, bytes |-> <<>>]
Bytes(b) == [is_none |-> FALSE, bytes |-> b]

\* no stream given yet
NoFraming ==
    [ X |-> <<>>, tail |-> <<>>, stream |-> <<>>, fed |-> FALSE, calls |-> 0,
      frame_data |-> NoBytes, remaining |-> <<>> ]

\* a StreamBuffer with nothing to receive: the payloads framed onto the
\* stream, the bytes not yet delivered, self.buffer, the frames
\* extract_frame has returned, its last return value, and the append calls
NoChunks ==
    [ frames |-> <<>>, pending |-> <<>>, buffer |-> <<>>, out |-> <<>>,
      frame_data |-> NoBytes, appends |-> 0 ]

\* PacketFramer: [2 bytes: length, big-endian] [N bytes: data]
LENGTH_SIZE == 2
MAX_FRAME_SIZE == 65535

\* struct.pack('!H', n) and struct.unpack('!H', b)[0]
pack_H(n) == << n \div 256, n % 256 >>
unpack_H(b) == b[1] * 256 + b[2]

\* as frame, with the length prefix in little-endian order
frame_little_endian(data) ==
    << Len(data) % 256, Len(data) \div 256 >> \o data

\* PacketFramer.frame, for data of at most MAX_FRAME_SIZE bytes
frame(data) ==
    pack_H(Len(data)) \o data

\* PacketFramer.unframe: (frame_data or None, remaining stream)
unframe(buf) ==
    IF Len(buf) < LENGTH_SIZE
    THEN [frame_data |-> NoBytes, remaining |-> buf]
    ELSE LET frame_length == unpack_H(SubSeq(buf, 1, 2))
             total_size == LENGTH_SIZE + frame_length IN
         IF Len(buf) < total_size
         THEN [frame_data |-> NoBytes, remaining |-> buf]
         ELSE [frame_data |-> Bytes(SubSeq(buf, 3, total_size)),
               remaining |-> SubSeq(buf, total_size + 1, Len(buf))]

\* as extract_frame, with the buffer dropped when no frame is complete
extract_frame_dropping(buffer) ==
    LET r == unframe(buffer) IN
    [ frame_data |-> r.frame_data,
      buffer |-> IF r.frame_data.is_none THEN <<>> ELSE r.remaining ]

\* StreamBuffer.extract_frame: (what it returns, self.buffer afterwards)
extract_frame(buffer) ==
    LET r == unframe(buffer) IN
    [ frame_data |-> r.frame_data,
      buffer |-> IF r.frame_data.is_none THEN buffer ELSE r.remaining ]

\* byte strings of n bytes over the byte values 0 and 1
RECURSIVE ByteStrings(_)
ByteStrings(n) ==
    IF n = 0 THEN { <<>> }
    ELSE { Append(b, v) : b \in ByteStrings(n - 1), v \in {0, 1} }

\* payloads: every byte string of at most MaxLen bytes, and strings of
\* 0xFF bytes whose length is around one byte's range and at the largest
\* frame size
Filled(n) == [i \in 1..n |-> 255]
Payloads ==
    UNION { ByteStrings(n) : n \in 0..MaxLen } \cup
    { Filled(n) : n \in {255, 256, 257, MAX_FRAME_SIZE} }

\* what follows the first frame on the stream: nothing, or a second frame
\* and a proper prefix of a third
FollowingPayloads == { <<>>, <<0>>, <<1, 0>> }
Tails ==
    { <<>> } \cup
    UNION { { frame(Y) \o SubSeq(frame(Z), 1, n) :
                  n \in 0..(Len(frame(Z)) - 1) } :
            Y \in FollowingPayloads, Z \in FollowingPayloads }

(***************************************************************************)
(* Record layer on its own                                                 *)
(***************************************************************************)
Inst == {"A_send", "A_recv"}
MasterKeys == {KeyTerm("psk", 1, ""), KeyTerm("psk", 2, "")}
\* int(time.time()) & 0xFFFFFFFF
Timestamps == {0, 1}
Plaintexts == {Ipv4Echo, EmptyPlaintext}

Counters ==
    (0..NearCtrs) \cup
    { REPLAY_WINDOW_SIZE - 1, REPLAY_WINDOW_SIZE, REPLAY_WINDOW_SIZE + 1,
      2 * REPLAY_WINDOW_SIZE + 1 }

\* Byte strings that can arrive at decrypt besides the sender's records:
\* records a key holder sealed under the nonce decrypt rebuilds, the same
\* with the counter header overwritten, and a truncated record.
ArrivingRecords(h) ==
    { Record(c, h.session_key, c, 0, Ipv4Echo) : c \in Counters } \cup
    { Record(c, h.session_key, 0, 0, Ipv4Echo) : c \in {1, REPLAY_WINDOW_SIZE} } \cup
    { ShortRecord(MIN_RECORD_SIZE - 1) }

NoCall == [op |-> None, inst |-> None, rec |-> ShortRecord(0),
           res |-> None, pt |-> NoPacket]

InitAead ==
    /\ \E k \in MasterKeys :
          enc = [i \in Inst |-> NewHandler(IF i = "A_send" THEN KeyTerm("psk", 1, "") ELSE k)]
    /\ wire = {}
    /\ last = NoCall
    /\ accepted = [i \in Inst |-> {}]
    /\ tx = NoSends
    /\ fr = NoFraming
    /\ sb = NoChunks
    /\ codec = NoDecode
    /\ ServerConstructed
    /\ framesLeft = 0
    /\ connsLeft = 0
    /\ ClientConstructed
    /\ dialsLeft = 0

AeadEncrypt(pt, ts) ==
    LET r == encrypt(enc["A_send"], pt, ts) IN
    /\ enc["A_send"].send_counter < MaxSend
    /\ enc' = [enc EXCEPT !["A_send"] = r.h]
    /\ wire' = wire \cup {r.out}
    /\ last' = [op |-> "encrypt", inst |-> "A_send", rec |-> r.out,
                res |-> "ok", pt |-> pt]
    /\ UNCHANGED <<accepted, tx, fr, sb, codec, serverVars, clientVars>>

AeadDecrypt(rec) ==
    LET r == decrypt(enc["A_recv"], rec) IN
    /\ r.h.replay_attacks_blocked <= MaxBlocked
    /\ enc' = [enc EXCEPT !["A_recv"] = r.h]
    /\ last' = [op |-> "decrypt", inst |-> "A_recv", rec |-> rec,
                res |-> r.res, pt |-> r.pt]
    /\ accepted' = IF r.res = "ok"
                   THEN [accepted EXCEPT !["A_recv"] = @ \cup {rec.hdr}]
                   ELSE accepted
    /\ UNCHANGED <<wire, tx, fr, sb, codec, serverVars, clientVars>>

NextAead ==
    \/ \E pt \in Plaintexts, ts \in Timestamps : AeadEncrypt(pt, ts)
    \/ \E rec \in wire \cup ArrivingRecords(enc["A_recv"]) : AeadDecrypt(rec)

SpecAead == InitAead /\ [][NextAead]_vars

\* the receiving side on its own: every arriving record, in every order
NextReplay ==
    \E rec \in ArrivingRecords(enc["A_recv"]) : AeadDecrypt(rec)

SpecReplay == InitAead /\ [][NextReplay]_vars

\* encrypt on an instance whose key can be rotated: MaxLifetimeSend records
\* over the life of the instance
LifetimeEncrypt(pt, ts) ==
    /\ enc["A_send"].packets_encrypted < MaxLifetimeSend
    /\ AeadEncrypt(pt, ts)

\* EncryptionHandler.rekey called on the sending instance
AeadRekey(new_master_key) ==
    /\ enc' = [enc EXCEPT !["A_send"] = rekey(@, new_master_key)]
    /\ last' = [op |-> "rekey", inst |-> "A_send", rec |-> ShortRecord(0),
                res |-> "ok", pt |-> NoPacket]
    /\ UNCHANGED <<wire, accepted, tx, fr, sb, codec, serverVars, clientVars>>

NextRekey ==
    \/ \E pt \in Plaintexts, ts \in Timestamps : LifetimeEncrypt(pt, ts)
    \/ \E k \in MasterKeys : AeadRekey(k)

\* the sending side of one instance over its life, with key rotation
SpecRekey == InitAead /\ [][NextRekey]_vars

(***************************************************************************)
(* Server: the tasks.  asyncio runs one task at a time and switches only   *)
(* at an await that suspends; a handler at pc "drain" is running, every    *)
(* other pc is a suspension point (reader.read, writer.drain).             *)
(***************************************************************************)
Running == \E c \in Conns : hs[c].pc = "drain"

\* frames that can arrive on the stream of a session besides the client's
\* own records: records that verify under the session's key, one whose tag
\* does not verify, a truncated record and a frame of declared length 0
ArrivingPackets == {Ipv4Echo, [ver |-> 5, len |-> MIN_IP_HEADER_SIZE]}
ServerArrivingUnder(key) ==
    { Record(n, key, n, 0, pt) : n \in 0..1, pt \in ArrivingPackets }
    \cup { Record(0, key, 0, 1, Ipv4Echo),
           ShortRecord(MIN_RECORD_SIZE - 1), ShortRecord(0) }
ServerArriving(s) == ServerArrivingUnder(s.encryption.session_key)
SessionKeys ==
    { derive_key(KeyTerm("urandom", i, ""), "session_key") : i \in 1..NConn }
AllArriving == UNION { ServerArrivingUnder(k) : k \in SessionKeys }
Tokens == { <<"token", i>> : i \in 1..NConn }

\* asyncio.start_server callback: _handle_client_connection up to the first
\* await (reader.read in _authenticate_client); AuthHandler(db_session) is
\* constructed here and loads its assigned_ips
Accept(c) ==
    /\ ~Running
    /\ srv.listening
    /\ hs[c].pc = "free"
    /\ IF c = 1 THEN TRUE ELSE hs[c - 1].pc # "free"
    /\ connsLeft > 0
    /\ connsLeft' = connsLeft - 1
    /\ hs' = [hs EXCEPT ![c].pc = "auth_read",
                        ![c].assigned_ips = _load_assigned_ips(db)]
    /\ UNCHANGED <<db, sess, sessions, sessions_by_ip, stream, peer, srvLast,
                   framesLeft, srv,
                   aeadVars, clientVars>>

\* _authenticate_client, first read returns nothing usable (EOF, timeout,
\* not an AUTH_REQUEST): return None, then the finally block closes
AuthNoRequest(c) ==
    /\ ~Running
    /\ hs[c].pc = "auth_read"
    /\ hs' = [hs EXCEPT ![c].pc = "done", ![c].writer_closing = TRUE,
                        ![c].assigned_ips = {}]
    /\ UNCHANGED <<db, sess, sessions, sessions_by_ip, stream, peer, srvLast,
                   framesLeft, connsLeft, srv,
                   aeadVars, clientVars>>

\* _authenticate_client, the first read returns a control message that
\* unpack refuses (ProtocolError, caught by "except Exception") or whose
\* type is not AUTH_REQUEST: a log line and return None, nothing is written
AuthOtherMessage(c, data) ==
    /\ ~( unpack(data).res = "ok"
          /\ unpack(data).message_type = "AUTH_REQUEST" )
    /\ AuthNoRequest(c)

\* as auth_reply, with every failure of authenticate_user only logged
auth_reply_silent(res) ==
    IF res = "ok" THEN "AuthSuccess" ELSE None

\* _authenticate_client, what it writes for the outcome of authenticate_user:
\* AuthResponse on success, AuthFailure(e.error_code) in the handler of
\* AuthenticationError (InvalidCredentialsError is its only subclass raised
\* here, error_code 0x11); SessionLimitError and RuntimeError are no
\* AuthenticationError and end in "except Exception", which only logs
auth_reply(res) ==
    IF res = "ok" THEN "AuthSuccess"
    ELSE IF res = "InvalidCredentialsError" THEN "AuthFailure_0x11"
    ELSE None

\* _authenticate_client from the read of an AUTH_REQUEST to the next await
AuthRead(c, username, password) ==
    LET r == authenticate_user(db, hs[c].assigned_ips, username, password) IN
    /\ ~Running
    /\ hs[c].pc = "auth_read"
    /\ peer' = [peer EXCEPT
          ![c].password = IF r.res = "ok" THEN password ELSE @]
    /\ db' = r.db
    /\ hs' = [hs EXCEPT
          ![c].pc = IF r.res = "ok" THEN "reply_drain" ELSE "done",
          ![c].assigned_ips = IF r.res = "ok" THEN r.ips ELSE {},
          ![c].token = IF r.res = "ok" THEN r.db[Len(r.db)].token ELSE NoToken,
          ![c].writer_closing = (r.res # "ok"),
          ![c].reply = auth_reply(r.res)]
    /\ UNCHANGED <<sess, sessions, sessions_by_ip, stream, srvLast,
                   framesLeft, connsLeft, srv,
                   aeadVars, clientVars>>

\* _authenticate_client, the first read returns an AUTH_REQUEST: username
\* and password_hash are taken from the payload unpack returns; no other
\* field of the payload is read
AuthRequest(c, data) ==
    /\ unpack(data).res = "ok"
    /\ unpack(data).message_type = "AUTH_REQUEST"
    /\ AuthRead(c, unpack(data).payload.username,
                   unpack(data).payload.password_hash)

\* writer.drain() of the AuthSuccess reply raises: return None, no session
ReplyDrainFails(c) ==
    /\ ~Running
    /\ hs[c].pc = "reply_drain"
    /\ hs' = [hs EXCEPT ![c].pc = "done", ![c].writer_closing = TRUE,
                        ![c].assigned_ips = {}]
    /\ UNCHANGED <<db, sess, sessions, sessions_by_ip, stream, peer, srvLast,
                   framesLeft, connsLeft, srv,
                   aeadVars, clientVars>>

\* the reply is drained: get_by_token, ClientSession(...), add_session, and
\* _handle_tunnel_data up to its first recv_data.  The client reads the
\* AUTH_SUCCESS and installs its EncryptionHandler (_authenticate).
ReplyDrained(c) ==
    LET row == db[get_by_token(db, hs[c].token)]
        s == NewSession(row) IN
    /\ ~Running
    /\ hs[c].pc = "reply_drain"
    /\ sess' = [sess EXCEPT ![c] = s]
    /\ sessions' = add_session_tokens(sessions, c, s)
    /\ sessions_by_ip' = add_session_ips(sessions_by_ip, c, s)
    /\ hs' = [hs EXCEPT ![c].pc = "recv", ![c].assigned_ips = {}]
    /\ peer' = [peer EXCEPT
          ![c].session_token = row.token,
          ![c].assigned_ip = row.assigned_ip,
          ![c].has_encryption = TRUE,
          ![c].encryption =
              NewHandler(client_master_key(row.token, peer[c].password))]
    /\ UNCHANGED <<db, stream, srvLast, framesLeft, connsLeft, srv,
                   aeadVars, clientVars>>

\* TunnelClient.send_packet of a packet that passes process_outbound
PeerSend(c, pt, ts) ==
    LET r == encrypt(peer[c].encryption, pt, ts) IN
    /\ ~Running
    /\ peer[c].has_encryption
    /\ hs[c].pc \in {"recv", "send_wait"}
    /\ framesLeft > 0
    /\ process_packet(pt) # NoPacket
    /\ peer' = [peer EXCEPT ![c].encryption = r.h]
    /\ stream' = [stream EXCEPT ![c] = Append(@, r.out)]
    /\ framesLeft' = framesLeft - 1
    /\ UNCHANGED <<db, hs, sess, sessions, sessions_by_ip, srvLast, connsLeft, srv,
                   aeadVars, clientVars>>

\* other bytes reach the session's stream
Inject(c, rec) ==
    /\ ~Running
    /\ rec \in ServerArriving(sess[c])
    /\ hs[c].pc \in {"recv", "send_wait"}
    /\ framesLeft > 0
    /\ stream' = [stream EXCEPT ![c] = Append(@, rec)]
    /\ framesLeft' = framesLeft - 1
    /\ UNCHANGED <<db, hs, sess, sessions, sessions_by_ip, peer, srvLast,
                   connsLeft, srv,
                   aeadVars, clientVars>>

\* the finally block of _handle_client_connection for a handler that has a
\* session: remove_session, terminate_session, close
FinishHs(c) ==
    [remove_session_writers(sessions, hs, {sess[c].token})
        EXCEPT ![c].pc = "done", ![c].writer_closing = TRUE]
Finish(c) ==
    /\ sessions' = remove_session_tokens(sessions, {sess[c].token})
    /\ sessions_by_ip' =
          remove_session_ips(sessions, sessions_by_ip, sess, {sess[c].token})
    /\ db' = terminate_session(db, sess[c].token)
    /\ hs' = FinishHs(c)

\* recv_data returns k frames' worth of bytes: append, enter the drain loop
Recv(c, k) ==
    /\ ~Running
    /\ hs[c].pc = "recv"
    /\ k \in 1..Len(stream[c])
    /\ sess' = [sess EXCEPT
          ![c].read_buffer = @ \o SubSeq(stream[c], 1, k)]
    /\ stream' = [stream EXCEPT ![c] = SubSeq(@, k + 1, Len(@))]
    /\ hs' = [hs EXCEPT ![c].pc = "drain"]
    /\ UNCHANGED <<db, sessions, sessions_by_ip, peer, srvLast, framesLeft,
                   connsLeft, srv,
                   aeadVars, clientVars>>

\* recv_data returns None (EOF or I/O error): leave the loop, finally block
RecvEof(c) ==
    /\ ~Running
    /\ hs[c].pc = "recv"
    /\ Finish(c)
    /\ sess' = [remove_session_objects(sessions, sess, {sess[c].token})
                  EXCEPT ![c].is_active = FALSE]
    /\ UNCHANGED <<stream, peer, srvLast, framesLeft, connsLeft, srv,
                   aeadVars, clientVars>>

\* inner loop: extract_frame returns nothing (or a frame of length 0, which
\* "if not frame" takes for nothing): back to "while session.is_active"
DrainBreak(c) ==
    /\ hs[c].pc = "drain"
    /\ \/ sess[c].read_buffer = <<>>
       \/ /\ sess[c].read_buffer # <<>>
          /\ Head(sess[c].read_buffer).len = 0
    /\ IF sess[c].is_active
       THEN /\ hs' = [hs EXCEPT ![c].pc = "recv"]
            /\ sess' = [sess EXCEPT ![c].read_buffer =
                          IF @ = <<>> THEN @ ELSE Tail(@)]
            /\ UNCHANGED <<db, sessions, sessions_by_ip>>
       ELSE /\ Finish(c)
            /\ sess' = [remove_session_objects(sessions, sess, {sess[c].token})
                          EXCEPT ![c].read_buffer =
                              IF @ = <<>> THEN @ ELSE Tail(@)]
    /\ UNCHANGED <<stream, peer, srvLast, framesLeft, connsLeft, srv,
                   aeadVars, clientVars>>

\* inner loop: one frame is extracted, decrypted and validated; a valid
\* packet is echoed: encrypt, frame, send_data up to its drain
\* where the inner loop is after a frame: awaiting the echo's drain, or
\* ("except Exception: continue", nothing to echo) at the next extract_frame
frame_loop_abort(echoed) == IF echoed THEN "send_wait" ELSE "recv"
frame_loop_next(echoed) == IF echoed THEN "send_wait" ELSE "drain"
DrainFrame(c, ts) ==
    LET frm == Head(sess[c].read_buffer)
        d == decrypt(sess[c].encryption, frm)
        processed == process_packet(d.pt)
        e == encrypt(d.h, processed, ts)
        echoed == d.res = "ok" /\ processed # NoPacket
        res == IF d.res # "ok" THEN d.res
               ELSE IF processed = NoPacket THEN "invalid_packet"
               ELSE "ok" IN
    /\ hs[c].pc = "drain"
    /\ sess[c].read_buffer # <<>>
    /\ frm.len # 0
    /\ echoed \/ ts = 0
    /\ sess' = [sess EXCEPT
          ![c].read_buffer = Tail(@),
          ![c].encryption = IF echoed THEN e.h ELSE d.h]
    /\ srvLast' = [conn |-> c, rec |-> frm, res |-> res,
                   n |-> srvLast.n + 1,
                   errs |-> IF srvLast.res \in {None, "ok"} THEN srvLast.errs
                            ELSE srvLast.errs \cup {srvLast.res}]
    /\ hs' = [hs EXCEPT ![c].pc = frame_loop_next(echoed)]
    /\ UNCHANGED <<db, sessions, sessions_by_ip, stream, peer, framesLeft,
                   connsLeft, srv,
                   aeadVars, clientVars>>

\* send_data resumes after writer.drain(): completes, or raises into
\* "except Exception: continue"; either way the inner loop goes on
SendDone(c) ==
    /\ ~Running
    /\ hs[c].pc = "send_wait"
    /\ hs' = [hs EXCEPT ![c].pc = "drain"]
    /\ UNCHANGED <<db, sess, sessions, sessions_by_ip, stream, peer, srvLast,
                   framesLeft, connsLeft, srv,
                   aeadVars, clientVars>>

\* one round of _cleanup_task: cleanup_inactive_sessions(300) with idle the
\* sessions whose last activity is more than 300 s old, then
\* AuthHandler(db_session).cleanup_expired_sessions()
InactiveTokens(idle) ==
    { t \in DOMAIN sessions : t \in idle \/ ~sess[sessions[t]].is_active }
\* what cleanup_inactive_sessions returns: len(to_remove)
cleanup_inactive_sessions(idle) == Cardinality(InactiveTokens(idle))
\* "while self.running" after a round of a background task: sleep again or
\* leave the loop
loop_again(v) == IF v.running THEN "sleep" ELSE "done"

CleanupTask(idle, expired) ==
    /\ ~Running
    /\ srv.cleanup = "sleep"
    /\ idle \subseteq DOMAIN sessions
    /\ expired \subseteq ActiveRows(db)
    /\ \E c \in Conns : hs[c].pc # "free"
    /\ sessions' = remove_session_tokens(sessions, InactiveTokens(idle))
    /\ sessions_by_ip' =
          remove_session_ips(sessions, sessions_by_ip, sess, InactiveTokens(idle))
    /\ sess' = remove_session_objects(sessions, sess, InactiveTokens(idle))
    /\ hs' = remove_session_writers(sessions, hs, InactiveTokens(idle))
    /\ db' = cleanup_expired_sessions(db, expired)
    /\ srv' = [srv EXCEPT !.cleanup = loop_again(srv)]
    /\ UNCHANGED <<stream, peer, srvLast, framesLeft, connsLeft,
                   aeadVars, clientVars>>

\* Task.cancel() on a background task: one at its sleep gets CancelledError
\* there, one that is done stays done
cancel_sleep(pc) == IF pc = "sleep" THEN "cancelled" ELSE pc

\* _statistics_task wakes after running was set to False: it logs and
\* leaves its loop
StatisticsEnd ==
    /\ ~Running
    /\ srv.statistics = "sleep"
    /\ ~srv.running
    /\ srv' = [srv EXCEPT !.statistics = "done"]
    /\ UNCHANGED <<db, hs, sess, sessions, sessions_by_ip, stream, peer,
                   srvLast, framesLeft, connsLeft, aeadVars, clientVars>>

\* a cancelled background task runs: "except CancelledError: break"
TaskCancelled(t) ==
    /\ ~Running
    /\ srv[t] = "cancelled"
    /\ srv' = [srv EXCEPT ![t] = "done"]
    /\ UNCHANGED <<db, hs, sess, sessions, sessions_by_ip, stream, peer,
                   srvLast, framesLeft, connsLeft, aeadVars, clientVars>>

\* TunnelServer.stop after wait_closed(): remove_session for every session
\* of the registry (no await of these suspends), cancel both background
\* tasks, then await their end
stop_sessions ==
    /\ sessions' = remove_session_tokens(sessions, DOMAIN sessions)
    /\ sessions_by_ip' =
          remove_session_ips(sessions, sessions_by_ip, sess, DOMAIN sessions)
    /\ sess' = remove_session_objects(sessions, sess, DOMAIN sessions)
    /\ hs' = remove_session_writers(sessions, hs, DOMAIN sessions)
    /\ srv' = [srv EXCEPT !.running = FALSE, !.listening = FALSE,
                          !.cleanup = cancel_sleep(@),
                          !.statistics = cancel_sleep(@),
                          !.stop = "gather"]

\* connections whose handler has not finished
OpenConns == { c \in Conns : hs[c].pc \notin {"free", "done"} }

\* TunnelServer.stop from its call to its first await that suspends.
\* Server.wait_closed() returns at once after close() in Python up to 3.11;
\* from 3.12 on it waits until every connection of the listener is closed.
ServerStop(waits) ==
    /\ ~Running
    /\ srv.running
    /\ waits => OpenConns # {}
    /\ IF waits
       THEN /\ srv' = [srv EXCEPT !.running = FALSE, !.listening = FALSE,
                                  !.stop = "wait_closed"]
            /\ UNCHANGED <<sessions, sessions_by_ip, sess, hs>>
       ELSE stop_sessions
    /\ UNCHANGED <<db, stream, peer, srvLast, framesLeft, connsLeft,
                   aeadVars, clientVars>>

\* wait_closed() returns when the last connection is closed
ServerStopResume ==
    /\ ~Running
    /\ srv.stop = "wait_closed"
    /\ OpenConns = {}
    /\ stop_sessions
    /\ UNCHANGED <<db, stream, peer, srvLast, framesLeft, connsLeft,
                   aeadVars, clientVars>>

\* both background tasks are done: gather returns, "Server stopped"
ServerStopDone ==
    /\ ~Running
    /\ srv.stop = "gather"
    /\ srv.cleanup = "done" /\ srv.statistics = "done"
    /\ srv' = [srv EXCEPT !.stop = "done"]
    /\ UNCHANGED <<db, hs, sess, sessions, sessions_by_ip, stream, peer,
                   srvLast, framesLeft, connsLeft, aeadVars, clientVars>>

\* handshakes, the registry and the persisted sessions
NextServer ==
    \/ \E c \in Conns : Accept(c)
    \/ \E c \in Conns : AuthNoRequest(c)
    \/ \E c \in Conns, data \in FirstMessages : AuthOtherMessage(c, data)
    \/ \E c \in Conns, data \in FirstMessages : AuthRequest(c, data)
    \/ \E c \in Conns : ReplyDrainFails(c)
    \/ \E c \in Conns : ReplyDrained(c)
    \/ \E c \in Conns : RecvEof(c)
    \/ \E idle \in SUBSET Tokens, expired \in SUBSET (1..NConn) :
          CleanupTask(idle, expired)

\* the same with stop() called at any moment
NextStop ==
    \/ \E c \in Conns : Accept(c)
    \/ \E c \in Conns : AuthNoRequest(c)
    \/ \E c \in Conns, data \in FirstMessages : AuthOtherMessage(c, data)
    \/ \E c \in Conns, data \in FirstMessages : AuthRequest(c, data)
    \/ \E c \in Conns : ReplyDrainFails(c)
    \/ \E c \in Conns : ReplyDrained(c)
    \/ \E c \in Conns : RecvEof(c)
    \/ \E idle \in SUBSET Tokens, expired \in SUBSET (1..NConn) :
          CleanupTask(idle, expired)
    \/ \E waits \in BOOLEAN : ServerStop(waits)
    \/ ServerStopResume
    \/ StatisticsEnd
    \/ \E t \in {"cleanup", "statistics"} : TaskCancelled(t)
    \/ ServerStopDone

\* the same with traffic on the sessions
NextData ==
    \/ \E c \in Conns : Accept(c)
    \/ \E c \in Conns : AuthNoRequest(c)
    \/ \E c \in Conns, data \in FirstMessages : AuthOtherMessage(c, data)
    \/ \E c \in Conns, data \in FirstMessages : AuthRequest(c, data)
    \/ \E c \in Conns : ReplyDrainFails(c)
    \/ \E c \in Conns : ReplyDrained(c)
    \/ \E c \in Conns, pt \in Packets, ts \in Timestamps : PeerSend(c, pt, ts)
    \/ \E c \in Conns, rec \in AllArriving : Inject(c, rec)
    \/ \E c \in Conns, k \in 1..MaxFrames : Recv(c, k)
    \/ \E c \in Conns : RecvEof(c)
    \/ \E c \in Conns : DrainBreak(c)
    \/ \E c \in Conns, ts \in Timestamps : DrainFrame(c, ts)
    \/ \E c \in Conns : SendDone(c)
    \/ \E idle \in SUBSET Tokens, expired \in SUBSET (1..NConn) :
          CleanupTask(idle, expired)

OthersParked ==
    /\ ClientConstructed
    /\ dialsLeft = 0
    /\ enc = [i \in Inst |-> NewHandler(KeyTerm("psk", 1, ""))]
    /\ wire = {}
    /\ last = NoCall
    /\ accepted = [i \in Inst |-> {}]
    /\ tx = NoSends
    /\ fr = NoFraming
    /\ sb = NoChunks
    /\ codec = NoDecode

\* the session core: several connections, no traffic
InitServer ==
    /\ ServerConstructed
    /\ framesLeft = 0
    /\ connsLeft = NConn
    /\ OthersParked

SpecServer == InitServer /\ [][NextServer]_vars

\* the session core with shutdown: the listener accepts MaxStopConns
\* connections before stop() is called
InitStop ==
    /\ ServerConstructed
    /\ framesLeft = 0
    /\ connsLeft = MaxStopConns
    /\ OthersParked

SpecStop == InitStop /\ [][NextStop]_vars

\* the read of a handler whose writer the server has closed returns: the
\* transport is shut down and the reader is fed EOF
ClosedEof(c) == hs[c].writer_closing /\ RecvEof(c)

\* the same where such a read does return
SpecStopFair ==
    InitStop /\ [][NextStop]_vars
    /\ \A c \in Conns : WF_vars(ClosedEof(c))

\* handshakes and session ends, between two rounds of the cleanup task
NextHandshake ==
    \/ \E c \in Conns : Accept(c)
    \/ \E c \in Conns : AuthNoRequest(c)
    \/ \E c \in Conns, data \in FirstMessages : AuthOtherMessage(c, data)
    \/ \E c \in Conns, data \in FirstMessages : AuthRequest(c, data)
    \/ \E c \in Conns : ReplyDrainFails(c)
    \/ \E c \in Conns : ReplyDrained(c)
    \/ \E c \in Conns : RecvEof(c)

SpecHandshake == InitServer /\ [][NextHandshake]_vars

\* the address pool near exhaustion: the sessions table holds an active
\* row of some other user for every client address but those of the
\* indices in free
PoolRow(k, i) ==
    [ token |-> <<"token", k>>,
      user_id |-> Cardinality(DOMAIN Users) + k,
      assigned_ip |-> get_next_client_ip(i),
      encryption_key |-> KeyTerm("urandom", k, ""),
      is_active |-> TRUE ]
\* the k-th index in use, counted from 1
UsedIndex(free, k) ==
    CHOOSE i \in 0..(POOL_SIZE - 1) :
        i \notin free /\ i - Cardinality({ f \in free : f < i }) = k - 1
PoolRows(free) ==
    [ k \in 1..(POOL_SIZE - Cardinality(free)) |->
          PoolRow(k, UsedIndex(free, k)) ]

\* the lowest two and the highest index of the pool
EdgeIndices == {0, 1, POOL_SIZE - 1}

InitPool ==
    /\ \E free \in SUBSET EdgeIndices : ServerOver(PoolRows(free))
    /\ framesLeft = 0
    /\ connsLeft = MaxPoolConns
    /\ OthersParked

\* handshakes and session ends on that table
NextPool ==
    \/ \E c \in Conns : Accept(c)
    \/ \E c \in Conns, data \in AuthRequests : AuthRequest(c, data)
    \/ \E c \in Conns : ReplyDrainFails(c)
    \/ \E c \in Conns : ReplyDrained(c)
    \/ \E c \in Conns : RecvEof(c)

SpecPool == InitPool /\ [][NextPool]_vars

\* the data plane: one connection and its traffic
InitData ==
    /\ ServerConstructed
    /\ framesLeft = MaxFrames
    /\ connsLeft = 1
    /\ OthersParked

SpecData == InitData /\ [][NextData]_vars

(***************************************************************************)
(* Client tasks.  One action is what a task runs between two awaits that   *)
(* suspend.                                                                *)
(***************************************************************************)
ConnectOutcomes == {"ok", "tcp_fail", "auth_fail"}
LossKinds == {"eof", "io_error"}

\* AutoReconnect.enable / disable, called by the application
Enable ==
    /\ ~ar.is_enabled
    /\ ar' = [ar EXCEPT !.is_enabled = TRUE]
    /\ UNCHANGED <<tc, task, rxEnd, dialsLeft, cm, hist, aeadVars, serverVars>>

\* the reconnect task after Task.cancel(): one that has not run yet never
\* enters its body, one at an await gets CancelledError there
cancel_task(pc) ==
    IF pc = "start" THEN "done"
    ELSE IF pc \in {"sleep", "connecting"} THEN "cancelled"
    ELSE pc

\* disable cancels a reconnect task that is not done
Disable ==
    /\ ar.is_enabled
    /\ ar' = [ar EXCEPT !.is_enabled = FALSE]
    /\ task' = [task EXCEPT !.reconnect = cancel_task(@)]
    /\ hist' = [hist EXCEPT !.cancel =
                    IF Pending(task.reconnect) THEN "loop" ELSE "idle"]
    /\ UNCHANGED <<tc, rxEnd, dialsLeft, cm, aeadVars, serverVars>>

\* AutoReconnect.stop up to its await of the cancelled task; with no task
\* to wait for it sets IDLE at once
Stop ==
    /\ task.stopper = "none"
    /\ ar' = [ar EXCEPT !.is_enabled = FALSE,
                        !.state = IF Pending(task.reconnect) THEN @
                                  ELSE "idle"]
    /\ task' = [task EXCEPT
          !.reconnect = cancel_task(@),
          !.stopper = IF Pending(task.reconnect) THEN "await" ELSE "none"]
    /\ hist' = [hist EXCEPT !.cancel =
                    IF Pending(task.reconnect) THEN "loop" ELSE "idle"]
    /\ UNCHANGED <<tc, rxEnd, dialsLeft, cm, aeadVars, serverVars>>

\* AutoReconnect.stop resumes when the reconnect task is done: IDLE
StopDone ==
    /\ task.stopper = "await"
    /\ ~Pending(task.reconnect)
    /\ ar' = [ar EXCEPT !.state = "idle"]
    /\ task' = [task EXCEPT !.stopper = "none"]
    /\ UNCHANGED <<tc, rxEnd, dialsLeft, cm, hist, aeadVars, serverVars>>

\* ConnectionManager.connect called by the application, up to the await of
\* open_connection in _connect_internal: a new TunnelClient, auto
\* reconnect enabled if the configuration says so, AUTHENTICATING.  The
\* model holds one TunnelClient, so the call waits for the tasks of the
\* previous one.
UserConnect(auto) ==
    /\ cm.state \in {"disconnected", "error"}
    /\ task.user = "idle"
    /\ ~tc.is_connected
    /\ ~Pending(task.reconnect) /\ ~Pending(task.starter)
    /\ ~Pending(task.receive) /\ ~Pending(task.stopper)
    /\ dialsLeft > 0
    /\ dialsLeft' = dialsLeft - 1
    /\ tc' = [is_connected |-> FALSE, writer |-> "none"]
    /\ ar' = [NewAutoReconnect EXCEPT !.is_enabled = auto]
    /\ cm' = [cm EXCEPT !.state = "authenticating"]
    /\ task' = [task EXCEPT !.user = "connecting"]
    /\ hist' = NoHistory
    /\ UNCHANGED <<rxEnd, aeadVars, serverVars>>

\* the state of the tunnel after _connect_internal got its outcome
Connected(t, outcome) ==
    IF outcome = "ok" THEN [is_connected |-> TRUE, writer |-> "open"]
    ELSE IF outcome = "auth_fail"
    THEN [is_connected |-> FALSE, writer |-> "none"]
    ELSE t

\* the history after a connect attempt of "by" got its outcome
Attempted(h, by, outcome) ==
    [h EXCEPT !.last = [by |-> by, outcome |-> outcome],
              !.wakes = 0, !.pings = 0]

\* _connect_internal resumes in the application's task and returns to
\* ConnectionManager.connect: CONNECTED, or ERROR and return False
UserConnectDone(outcome) ==
    /\ task.user = "connecting"
    /\ tc' = Connected(tc, outcome)
    /\ ar' = IF outcome = "ok" THEN on_connected(ar) ELSE ar
    /\ cm' = [cm EXCEPT !.state =
                  IF outcome = "ok" THEN "connected" ELSE "error"]
    /\ task' = [task EXCEPT
          !.user = "idle",
          !.receive = IF outcome = "ok" THEN "read" ELSE @,
          !.keepalive = IF outcome = "ok" THEN "sleep" ELSE @]
    /\ rxEnd' = IF outcome = "ok" THEN NoRxEnd ELSE rxEnd
    /\ hist' = Attempted(hist, "user", outcome)
    /\ UNCHANGED <<dialsLeft, aeadVars, serverVars>>

\* ConnectionManager.disconnect called by the application: DISCONNECTING,
\* TunnelClient.disconnect, DISCONNECTED.  TunnelClient.disconnect returns
\* at once when not connected; when connected its _cleanup_connection
\* cancels the two background tasks from outside.  The reconnect
\* controller is left as it is.
UserDisconnect ==
    /\ cm.state # "disconnected"
    /\ task.user = "idle"
    /\ tc' = IF tc.is_connected
             THEN [is_connected |-> FALSE, writer |-> "none"] ELSE tc
    /\ task' = IF tc.is_connected
               THEN [task EXCEPT !.receive = "done", !.keepalive = "done"]
               ELSE task
    /\ rxEnd' = IF tc.is_connected
                THEN [by |-> "cancel", cleaned |-> TRUE, notified |-> FALSE]
                ELSE rxEnd
    /\ cm' = [cm EXCEPT !.state = "disconnected"]
    /\ UNCHANGED <<ar, dialsLeft, hist, aeadVars, serverVars>>

\* ConnectionManager._on_tunnel_disconnected
_on_tunnel_disconnected(m) ==
    IF m.state = "connected" THEN [m EXCEPT !.state = "reconnecting"] ELSE m

\* ConnectionManager.get_state
get_state(m) == m.state

\* ConnectionManager.send_packet: TRUE when the packet is handed to
\* TunnelClient.send_data and that sends it, FALSE when it returns False
send_packet(m, t) == m.state = "connected" /\ t.is_connected

\* _receive_loop: reader.read returns b"" (eof) or raises (io_error) while
\* is_connected.  The finally block runs _on_connection_lost, whose
\* _cleanup_connection cancels self.receive_task, the running task, and
\* then, unless the writer is already closing, closes it and awaits
\* wait_closed().  After an I/O error the transport is closed already.
RecvLoss(kind, closing) ==
    /\ task.receive = "read"
    /\ tc.is_connected
    /\ kind = "io_error" => closing
    /\ tc' = [is_connected |-> FALSE,
              writer |-> IF closing THEN "none" ELSE "closed"]
    /\ task' = [task EXCEPT
          !.keepalive = "done",
          !.receive = IF closing THEN "done" ELSE "wait_closed",
          !.starter = IF closing /\ ar.is_enabled THEN "ready" ELSE @]
    /\ rxEnd' = [by |-> kind, cleaned |-> closing, notified |-> closing]
    /\ cm' = IF closing THEN _on_tunnel_disconnected(cm) ELSE cm
    /\ UNCHANGED <<ar, dialsLeft, hist, aeadVars, serverVars>>

\* the await of wait_closed() suspends a task whose cancellation was
\* requested: CancelledError is raised there, passes "except Exception" and
\* ends the task
RecvCancelled ==
    /\ task.receive = "wait_closed"
    /\ task' = [task EXCEPT !.receive = "done"]
    /\ UNCHANGED <<tc, ar, rxEnd, dialsLeft, cm, hist, aeadVars, serverVars>>

\* _keepalive_loop: asyncio.sleep(KEEPALIVE_INTERVAL) returns while
\* connected; the loop logs "Keepalive ping", writes nothing to the stream
\* and sleeps again
KeepaliveWake ==
    /\ task.keepalive = "sleep"
    /\ tc.is_connected
    /\ hist.wakes < MaxWakes
    /\ hist' = [hist EXCEPT !.wakes = @ + 1]
    /\ UNCHANGED <<tc, ar, task, rxEnd, dialsLeft, cm, aeadVars, serverVars>>

\* as start_reconnect, without the test for a task in progress
start_reconnect_unguarded(a, pc) ==
    IF ~a.is_enabled THEN pc
    ELSE "start"

\* AutoReconnect.start_reconnect: self.reconnect_task afterwards, pc being
\* where the task it held stands; a new task is created unless the
\* controller is disabled or the task is not done
start_reconnect(a, pc) ==
    IF ~a.is_enabled THEN pc
    ELSE IF Pending(pc) THEN pc
    ELSE "start"

\* the task on_disconnected created runs start_reconnect
StarterRun ==
    /\ task.starter = "ready"
    /\ task' = [task EXCEPT
          !.starter = "done",
          !.reconnect = start_reconnect(ar, @)]
    /\ UNCHANGED <<tc, ar, rxEnd, dialsLeft, cm, hist, aeadVars, serverVars>>

\* the top of "while self.is_enabled" for a controller a: leave the loop,
\* or count the attempt and go to WAITING
loop_top(a) ==
    IF a.is_enabled
    THEN [a EXCEPT !.reconnect_attempts = @ + 1, !.state = "waiting"]
    ELSE loop_exit(a)

\* _reconnect_loop from its start to the first await: the first attempt
\* does not sleep and calls connect_func at once
ReconnectStart ==
    LET a0 == [ar EXCEPT !.reconnect_attempts = 0,
                         !.current_delay = RECONNECT_INITIAL_DELAY] IN
    /\ task.reconnect = "start"
    /\ ar.is_enabled => dialsLeft > 0
    /\ ar' = IF ar.is_enabled
             THEN [loop_top(a0) EXCEPT !.state = "connecting"]
             ELSE loop_top(a0)
    /\ task' = [task EXCEPT !.reconnect =
                    IF ar.is_enabled THEN "connecting" ELSE "done"]
    /\ dialsLeft' = IF ar.is_enabled THEN dialsLeft - 1 ELSE dialsLeft
    /\ hist' = IF ar.is_enabled
               THEN [hist EXCEPT !.fails = 0, !.slept = << >>,
                                 !.cancel = None]
               ELSE hist
    /\ UNCHANGED <<tc, rxEnd, cm, aeadVars, serverVars>>

\* asyncio.sleep(current_delay) returns: CONNECTING, connect_func
SleepDone ==
    /\ task.reconnect = "sleep"
    /\ dialsLeft > 0
    /\ dialsLeft' = dialsLeft - 1
    /\ ar' = [ar EXCEPT !.state = "connecting"]
    /\ task' = [task EXCEPT !.reconnect = "connecting"]
    /\ UNCHANGED <<tc, rxEnd, cm, hist, aeadVars, serverVars>>

\* the success branch of _reconnect_loop, after connect_func has run
\* on_connected: CONNECTED, one more reconnect, delay and attempts reset
reconnect_keep(a) ==
    [a EXCEPT !.total_reconnects = @ + 1]
reconnect_success(a) ==
    [on_connected(a) EXCEPT !.state = "connected",
                            !.total_reconnects = @ + 1,
                            !.current_delay = RECONNECT_INITIAL_DELAY,
                            !.reconnect_attempts = 0]

\* the failure branch of _reconnect_loop: back off, then FAILED
reconnect_failure(a) == [_increase_backoff(a) EXCEPT !.state = "failed"]

\* connect_func returns in the reconnect task: on success break, on
\* failure the next round of the loop, which sleeps current_delay.  The
\* manager's _on_tunnel_connected only writes a log line.
ReconnectConnectDone(outcome) ==
    LET failed == loop_top(reconnect_failure(ar)) IN
    /\ task.reconnect = "connecting"
    /\ tc' = Connected(tc, outcome)
    /\ ar' = IF outcome = "ok" THEN loop_exit(reconnect_success(ar))
             ELSE failed
    /\ task' = [task EXCEPT
          !.reconnect = IF outcome # "ok" /\ ar.is_enabled
                        THEN "sleep" ELSE "done",
          !.receive = IF outcome = "ok" THEN "read" ELSE @,
          !.keepalive = IF outcome = "ok" THEN "sleep" ELSE @]
    /\ rxEnd' = IF outcome = "ok" THEN NoRxEnd ELSE rxEnd
    /\ hist' = IF outcome = "ok"
               THEN Attempted(hist, "reconnect", outcome)
               ELSE [Attempted(hist, "reconnect", outcome) EXCEPT
                        !.fails = @ + 1,
                        !.slept = IF ar.is_enabled
                                  THEN Append(@, failed.current_delay)
                                  ELSE @]
    /\ UNCHANGED <<dialsLeft, cm, aeadVars, serverVars>>

\* CancelledError reaches _reconnect_loop at its await: break, then IDLE
\* unless the controller was enabled again meanwhile
ReconnectCancelled ==
    /\ task.reconnect = "cancelled"
    /\ ar' = loop_exit(ar)
    /\ task' = [task EXCEPT !.reconnect = "done"]
    /\ UNCHANGED <<tc, rxEnd, dialsLeft, cm, hist, aeadVars, serverVars>>

\* start_reconnect awaited by the application itself, on a tunnel that is
\* down, while the application is not inside connect()
StartReconnect ==
    /\ task.user = "idle"
    /\ ~tc.is_connected
    /\ task' = [task EXCEPT !.reconnect = start_reconnect(ar, @)]
    /\ hist' = [hist EXCEPT !.refused =
                    @ \/ (ar.is_enabled /\ Pending(task.reconnect))]
    /\ UNCHANGED <<tc, ar, rxEnd, dialsLeft, cm, aeadVars, serverVars>>

NextClient ==
    \/ Enable
    \/ Disable
    \/ Stop
    \/ StopDone
    \/ \E auto \in BOOLEAN : UserConnect(auto)
    \/ \E outcome \in ConnectOutcomes : UserConnectDone(outcome)
    \/ UserDisconnect
    \/ \E kind \in LossKinds, closing \in BOOLEAN : RecvLoss(kind, closing)
    \/ RecvCancelled
    \/ KeepaliveWake
    \/ StarterRun
    \/ ReconnectStart
    \/ SleepDone
    \/ \E outcome \in ConnectOutcomes : ReconnectConnectDone(outcome)
    \/ ReconnectCancelled

InitClient ==
    /\ ClientConstructed
    /\ dialsLeft = MaxDials
    /\ ServerConstructed
    /\ framesLeft = 0
    /\ connsLeft = 0
    /\ enc = [i \in Inst |-> NewHandler(KeyTerm("psk", 1, ""))]
    /\ wire = {}
    /\ last = NoCall
    /\ accepted = [i \in Inst |-> {}]
    /\ tx = NoSends
    /\ fr = NoFraming
    /\ sb = NoChunks
    /\ codec = NoDecode

SpecClient == InitClient /\ [][NextClient]_vars

\* _connect_internal calls in one run of the controller on its own
MaxLoopDials == 3

\* the tunnel and its controller with start_reconnect also called by the
\* application
InitReconnect ==
    /\ ClientConstructed
    /\ dialsLeft = MaxLoopDials
    /\ ServerConstructed
    /\ framesLeft = 0
    /\ connsLeft = 0
    /\ enc = [i \in Inst |-> NewHandler(KeyTerm("psk", 1, ""))]
    /\ wire = {}
    /\ last = NoCall
    /\ accepted = [i \in Inst |-> {}]
    /\ tx = NoSends
    /\ fr = NoFraming
    /\ sb = NoChunks
    /\ codec = NoDecode

NextReconnect ==
    \/ Enable
    \/ Disable
    \/ \E auto \in BOOLEAN : UserConnect(auto)
    \/ \E outcome \in ConnectOutcomes : UserConnectDone(outcome)
    \/ \E kind \in LossKinds, closing \in BOOLEAN : RecvLoss(kind, closing)
    \/ RecvCancelled
    \/ StarterRun
    \/ StartReconnect
    \/ ReconnectStart
    \/ SleepDone
    \/ \E outcome \in ConnectOutcomes : ReconnectConnectDone(outcome)
    \/ ReconnectCancelled

SpecReconnect == InitReconnect /\ [][NextReconnect]_vars

(***************************************************************************)
(* Framing on its own: PacketFramer over a byte stream                     *)
(***************************************************************************)
\* the sender frames X and the stream delivers it with what follows
Feed ==
    /\ ~fr.fed
    /\ Len(fr.X) <= MAX_FRAME_SIZE
    /\ fr' = [fr EXCEPT !.fed = TRUE, !.stream = frame(fr.X) \o fr.tail]
    /\ UNCHANGED <<enc, wire, last, accepted, tx, sb, codec, serverVars, clientVars>>

\* StreamBuffer.extract_frame: unframe, and the buffer becomes the
\* remainder when a frame was returned
Unframe ==
    LET r == unframe(fr.stream) IN
    /\ fr.fed
    /\ fr.calls < MaxUnframes
    /\ fr' = [fr EXCEPT !.calls = @ + 1,
                        !.frame_data = r.frame_data,
                        !.remaining = r.remaining,
                        !.stream = IF r.frame_data.is_none THEN @
                                   ELSE r.remaining]
    /\ UNCHANGED <<enc, wire, last, accepted, tx, sb, codec, serverVars, clientVars>>

InitFrame ==
    /\ \E X \in Payloads, tail \in Tails :
          fr = [NoFraming EXCEPT !.X = X, !.tail = tail]
    /\ sb = NoChunks
    /\ codec = NoDecode
    /\ tx = NoSends
    /\ enc = [i \in Inst |-> NewHandler(KeyTerm("psk", 1, ""))]
    /\ wire = {}
    /\ last = NoCall
    /\ accepted = [i \in Inst |-> {}]
    /\ ServerConstructed
    /\ framesLeft = 0
    /\ connsLeft = 0
    /\ ClientConstructed
    /\ dialsLeft = 0

NextFrame ==
    \/ Feed
    \/ Unframe

SpecFrame == InitFrame /\ [][NextFrame]_vars

(***************************************************************************)
(* Control-message decoding on its own                                     *)
(***************************************************************************)
CodecPayloads ==
    { EmptyMap, [timestamp |-> 0],
      [username |-> "alice", password_hash |-> "secret",
       client_version |-> "1.0.0"] }

\* what can be wrong with the bytes that reach unpack
Damages == {"none", "magic", "type", "truncated", "short", "trailing"}
Damaged(data, kind) ==
    IF kind = "magic" THEN [data EXCEPT !.magic = "HTTP"]
    ELSE IF kind = "type" THEN [data EXCEPT !.message_type = "0x7f"]
    ELSE IF kind = "truncated" THEN [data EXCEPT !.nbytes = @ - 1]
    ELSE IF kind = "short" THEN [data EXCEPT !.nbytes = HEADER_SIZE - 1]
    ELSE IF kind = "trailing" THEN [data EXCEPT !.nbytes = @ + 1]
    ELSE data

\* MessageFormat.unpack(data)
Decode ==
    /\ ~codec.called
    /\ codec' = [codec EXCEPT !.called = TRUE, !.got = unpack(codec.data)]
    /\ UNCHANGED <<enc, wire, last, accepted, tx, fr, sb, serverVars,
                   clientVars>>

InitCodec ==
    /\ \E t \in MessageTypes, payload \in CodecPayloads, kind \in Damages :
          codec = [NoDecode EXCEPT !.data = Damaged(pack(t, payload), kind),
                                   !.kind = kind]
    /\ sb = NoChunks
    /\ fr = NoFraming
    /\ tx = NoSends
    /\ enc = [i \in Inst |-> NewHandler(KeyTerm("psk", 1, ""))]
    /\ wire = {}
    /\ last = NoCall
    /\ accepted = [i \in Inst |-> {}]
    /\ ServerConstructed
    /\ framesLeft = 0
    /\ connsLeft = 0
    /\ ClientConstructed
    /\ dialsLeft = 0

NextCodec == Decode

SpecCodec == InitCodec /\ [][NextCodec]_vars

(***************************************************************************)
(* StreamBuffer fed in chunks                                              *)
(***************************************************************************)
\* frames written back to back on one stream
MaxStreamFrames == 2

RECURSIVE Concat(_)
Concat(ss) == IF ss = <<>> THEN <<>> ELSE ss[1] \o Concat(Tail(ss))

FrameLists ==
    UNION { [1..n -> FollowingPayloads] : n \in 1..MaxStreamFrames }

\* StreamBuffer.append with the next n bytes the transport delivers
SbAppend(n) ==
    /\ n \in 1..Len(sb.pending)
    /\ sb' = [sb EXCEPT !.buffer = @ \o SubSeq(sb.pending, 1, n),
                        !.pending = SubSeq(@, n + 1, Len(@)),
                        !.appends = @ + 1]
    /\ UNCHANGED <<enc, wire, last, accepted, tx, fr, codec, serverVars, clientVars>>

\* StreamBuffer.extract_frame
SbExtractFrame ==
    LET r == extract_frame(sb.buffer) IN
    /\ sb.appends > 0
    /\ sb' = [sb EXCEPT !.buffer = r.buffer,
                        !.frame_data = r.frame_data,
                        !.out = IF r.frame_data.is_none THEN @
                                ELSE Append(@, r.frame_data.bytes)]
    /\ UNCHANGED <<enc, wire, last, accepted, tx, fr, codec, serverVars, clientVars>>

InitChunk ==
    /\ \E fs \in FrameLists :
          sb = [NoChunks EXCEPT
                  !.frames = fs,
                  !.pending = Concat([i \in 1..Len(fs) |-> frame(fs[i])])]
    /\ fr = NoFraming
    /\ codec = NoDecode
    /\ tx = NoSends
    /\ enc = [i \in Inst |-> NewHandler(KeyTerm("psk", 1, ""))]
    /\ wire = {}
    /\ last = NoCall
    /\ accepted = [i \in Inst |-> {}]
    /\ ServerConstructed
    /\ framesLeft = 0
    /\ connsLeft = 0
    /\ ClientConstructed
    /\ dialsLeft = 0

NextChunk ==
    \/ \E n \in 1..(MaxStreamFrames * (LENGTH_SIZE + 2)) : SbAppend(n)
    \/ SbExtractFrame

SpecChunk == InitChunk /\ [][NextChunk]_vars

(***************************************************************************)
(* Client data path: concurrent TunnelClient.send_packet calls             *)
(***************************************************************************)
\* as written, with the frame put in front of what the writer still holds
written_ahead(buffer, framed) == <<framed>> \o buffer

\* PacketFramer.frame of a record: the record behind its length prefix;
\* the writer's buffer holds the frames in the order of the write calls
written(buffer, framed) == Append(buffer, framed)

\* send_packet on a tunnel that is not connected: return False
SendRefused(k) ==
    /\ tx.call[k].pc = "idle"
    /\ ~tc.is_connected
    /\ tx' = [tx EXCEPT !.call[k].pc = "done", !.call[k].result = "False"]
    /\ UNCHANGED <<enc, wire, last, accepted, fr, sb, codec, serverVars, clientVars>>

\* send_packet of a packet process_outbound refuses: return False
SendInvalid(k, packet) ==
    /\ tx.call[k].pc = "idle"
    /\ tc.is_connected
    /\ process_packet(packet) = NoPacket
    /\ tx' = [tx EXCEPT !.call[k].pc = "done", !.call[k].result = "False"]
    /\ UNCHANGED <<enc, wire, last, accepted, fr, sb, codec, serverVars, clientVars>>

\* send_packet up to its await: process_outbound, encrypt, frame and
\* writer.write run without a suspension point between them
SendWrite(k, packet, timestamp) ==
    LET r == encrypt(enc["A_send"], process_packet(packet), timestamp) IN
    /\ tx.call[k].pc = "idle"
    /\ tc.is_connected
    /\ process_packet(packet) # NoPacket
    /\ enc' = [enc EXCEPT !["A_send"] = r.h]
    /\ tx' = [tx EXCEPT !.call[k].pc = "drain",
                        !.call[k].framed = LENGTH_SIZE + r.out.len,
                        !.buffer = written(@, r.out)]
    /\ UNCHANGED <<wire, last, accepted, fr, sb, codec, serverVars, clientVars>>

\* writer.drain() returns: the counters are updated, return True
SendDrained(k) ==
    /\ tx.call[k].pc = "drain"
    /\ tc.writer = "open"
    /\ tx' = [tx EXCEPT !.call[k].pc = "done", !.call[k].result = "True",
                        !.bytes_sent = @ + tx.call[k].framed,
                        !.packets_sent = @ + 1]
    /\ UNCHANGED <<enc, wire, last, accepted, fr, sb, codec, serverVars, clientVars>>

\* writer.drain() raises on a lost connection: logged, return False
SendDrainFails(k) ==
    /\ tx.call[k].pc = "drain"
    /\ tc.writer # "open"
    /\ tx' = [tx EXCEPT !.call[k].pc = "done", !.call[k].result = "False"]
    /\ UNCHANGED <<enc, wire, last, accepted, fr, sb, codec, serverVars, clientVars>>

\* a tunnel that is up: ConnectionManager.connect has returned True
InitSend ==
    /\ tc = Connected(tc, "ok")
    /\ ar = on_connected(NewAutoReconnect)
    /\ task = [user |-> "idle", receive |-> "read", keepalive |-> "sleep",
               starter |-> "none", reconnect |-> "none", stopper |-> "none"]
    /\ rxEnd = NoRxEnd
    /\ cm = [state |-> "connected"]
    /\ hist = Attempted(NoHistory, "user", "ok")
    /\ dialsLeft = 0
    /\ ServerConstructed
    /\ framesLeft = 0
    /\ connsLeft = 0
    /\ \E k \in MasterKeys : enc = [i \in Inst |-> NewHandler(k)]
    /\ wire = {}
    /\ last = NoCall
    /\ accepted = [i \in Inst |-> {}]
    /\ tx = NoSends
    /\ fr = NoFraming
    /\ sb = NoChunks
    /\ codec = NoDecode

\* the calls of the application, and the loss of the connection
NextSend ==
    \/ \E k \in Senders : SendRefused(k)
    \/ \E k \in Senders, packet \in Packets : SendInvalid(k, packet)
    \/ \E k \in Senders, packet \in Packets, ts \in Timestamps :
          SendWrite(k, packet, ts)
    \/ \E k \in Senders : SendDrained(k)
    \/ \E k \in Senders : SendDrainFails(k)
    \/ \E kind \in {"eof", "io_error"}, closing \in BOOLEAN :
          RecvLoss(kind, closing)

SpecSend == InitSend /\ [][NextSend]_vars

\* connect attempts of the reconnect loop on a tunnel that sends
MaxResendDials == 1

\* connect_func returns True in the reconnect task of a tunnel that has
\* sent packets: _authenticate has installed a new EncryptionHandler under
\* sha256(session_token + password), _connect_internal a new writer; the
\* statistics of the TunnelClient are kept.  The send_packet calls that
\* were at the drain of the lost writer have ended by then.
ReconnectReauth(token, password) ==
    /\ task.reconnect = "connecting"
    /\ \A k \in Senders : tx.call[k].pc # "drain"
    /\ tc' = Connected(tc, "ok")
    /\ ar' = loop_exit(reconnect_success(ar))
    /\ task' = [task EXCEPT !.reconnect = "done", !.receive = "read",
                            !.keepalive = "sleep"]
    /\ rxEnd' = NoRxEnd
    /\ hist' = Attempted(hist, "reconnect", "ok")
    /\ enc' = [enc EXCEPT
                 !["A_send"] = NewHandler(client_master_key(token, password))]
    /\ tx' = [tx EXCEPT !.buffer = <<>>]
    /\ UNCHANGED <<wire, last, accepted, fr, sb, codec, dialsLeft, cm,
                   serverVars>>

\* a tunnel that is up, with auto-reconnect enabled
InitResend ==
    /\ tc = Connected(tc, "ok")
    /\ ar = [on_connected(NewAutoReconnect) EXCEPT !.is_enabled = TRUE]
    /\ task = [user |-> "idle", receive |-> "read", keepalive |-> "sleep",
               starter |-> "none", reconnect |-> "none", stopper |-> "none"]
    /\ rxEnd = NoRxEnd
    /\ cm = [state |-> "connected"]
    /\ hist = Attempted(NoHistory, "user", "ok")
    /\ dialsLeft = MaxResendDials
    /\ ServerConstructed
    /\ framesLeft = 0
    /\ connsLeft = 0
    /\ \E k \in MasterKeys : enc = [i \in Inst |-> NewHandler(k)]
    /\ wire = {}
    /\ last = NoCall
    /\ accepted = [i \in Inst |-> {}]
    /\ tx = NoSends
    /\ fr = NoFraming
    /\ sb = NoChunks
    /\ codec = NoDecode

\* the calls of the application, the loss of the connection and the
\* reconnect loop
NextResend ==
    \/ \E k \in Senders : SendRefused(k)
    \/ \E k \in Senders, packet \in Packets : SendInvalid(k, packet)
    \/ \E k \in Senders, packet \in Packets, ts \in Timestamps :
          SendWrite(k, packet, ts)
    \/ \E k \in Senders : SendDrained(k)
    \/ \E k \in Senders : SendDrainFails(k)
    \/ \E kind \in {"eof", "io_error"}, closing \in BOOLEAN :
          RecvLoss(kind, closing)
    \/ RecvCancelled
    \/ StarterRun
    \/ ReconnectStart
    \/ \E outcome \in ConnectOutcomes \ {"ok"} : ReconnectConnectDone(outcome)
    \/ ReconnectReauth(<<"token", 2>>, "secret")

SpecResend == InitResend /\ [][NextResend]_vars

(***************************************************************************)
(* Claims about the server (checked under SpecServer and SpecData)         *)
(***************************************************************************)
\* connections whose ClientSession is live: constructed and not yet closed
LiveSessions == { c \in Conns : sess[c].exists /\ sess[c].is_active }
\* tokens that leave the registry in a step
Removed == DOMAIN sessions \ DOMAIN sessions'

\* C1: after a handshake that ended in AuthSuccess the client's AEAD
\* instance and the server session's AEAD instance hold the same master key,
\* and the first record the client sent is decrypted by the data-plane loop.
C1_SameMasterKey ==
    \A c \in Conns :
        ( hs[c].reply = "AuthSuccess" /\ peer[c].has_encryption
          /\ sess[c].exists )
        => /\ peer[c].encryption.master_key = sess[c].encryption.master_key
           /\ ( /\ srvLast.conn = c
                /\ srvLast.rec.len >= MIN_RECORD_SIZE
                /\ srvLast.rec.key = peer[c].encryption.session_key
                /\ srvLast.rec.hdr = 0 )
              => srvLast.res = "ok"

\* C5: no two live sessions hold the same virtual IP.
C5_UniqueVirtualIp ==
    \A c1 \in LiveSessions, c2 \in LiveSessions :
        c1 # c2 => sess[c1].assigned_ip # sess[c2].assigned_ip

\* C6: the token index and the IP index agree: get_session(token) returns
\* a session exactly when get_session_by_ip(its IP) returns that session.
C6_IndicesAgree ==
    /\ \A t \in DOMAIN sessions :
          get_session_by_ip(sess[sessions[t]].assigned_ip) = sessions[t]
    /\ \A ip \in DOMAIN sessions_by_ip :
          get_session(sess[sessions_by_ip[ip]].token) = sessions_by_ip[ip]

\* C7: a handshake never succeeds for a user who already has max_sessions
\* live sessions, and no user ever has more live sessions than max_sessions.
C7_SessionLimit ==
    \A u \in DOMAIN Users :
        Cardinality({ c \in LiveSessions : sess[c].user_id = Users[u].id })
            <= Users[u].max_sessions

\* C8: a step that terminates sessions (EOF, I/O error, eviction) leaves
\* every other session as it was: registered under its token and its IP,
\* stream open, active flag set.
C8_TerminationIsLocal ==
    [][ \A c \in Conns :
          ( /\ Removed # {}
            /\ sess[c].exists
            /\ sess[c].token \notin Removed
            /\ get_session(sess[c].token) = c
            /\ get_session_by_ip(sess[c].assigned_ip) = c )
          => /\ sess[c].token \in DOMAIN sessions'
             /\ sessions'[sess[c].token] = c
             /\ sess[c].assigned_ip \in DOMAIN sessions_by_ip'
             /\ sessions_by_ip'[sess[c].assigned_ip] = c
             /\ hs'[c].writer_closing = hs[c].writer_closing
             /\ sess'[c].is_active = sess[c].is_active ]_vars

\* C9: a frame that fails MAC verification, is rejected as a replay or
\* decrypts to an invalid IP packet is dropped and nothing else happens to
\* the session: it stays active and registered, its stream stays open, the
\* loop goes on with the next buffered frame and nothing is sent; and a
\* buffered frame that verifies and holds a valid packet is the next one
\* processed.
PerRecordErrors == {"DecryptionError", "ReplayAttackError", "invalid_packet"}
NextFrameValid(c) ==
    /\ hs[c].pc = "drain"
    /\ sess[c].read_buffer # <<>>
    /\ Head(sess[c].read_buffer).len # 0
    /\ decrypt(sess[c].encryption, Head(sess[c].read_buffer)).res = "ok"
    /\ validate_packet(Head(sess[c].read_buffer).pt)
C9_ErrorsKeepSession ==
    [][ \A c \in Conns :
          /\ ( srvLast'.n # srvLast.n /\ srvLast'.conn = c
               /\ srvLast'.res \in PerRecordErrors )
             => /\ sess'[c].is_active = sess[c].is_active
                /\ sess'[c].read_buffer = Tail(sess[c].read_buffer)
                /\ sess'[c].encryption.send_counter
                      = sess[c].encryption.send_counter
                /\ hs'[c].pc = "drain"
                /\ hs'[c].writer_closing = hs[c].writer_closing
                /\ UNCHANGED <<sessions, sessions_by_ip, db, stream>>
          /\ NextFrameValid(c)
             => /\ srvLast'.n = srvLast.n + 1
                /\ srvLast'.conn = c
                /\ srvLast'.rec = Head(sess[c].read_buffer)
                /\ srvLast'.res = "ok" ]_vars

\* C9 witness: on a session that is still active and registered, a valid
\* record has just been processed after a per-record error was logged on
\* the same stream.
C9_Witness ==
    /\ srvLast.res = "ok"
    /\ srvLast.errs # {}
    /\ sess[srvLast.conn].is_active
    /\ get_session(sess[srvLast.conn].token) = srvLast.conn

C22_SessionLimitReply ==
    [][ \A c \in Conns, u \in Usernames, p \in Passwords :
          ( /\ AuthRead(c, u, p)
            /\ authenticate(u, p) # None
            /\ ~can_create_session(db, u) )
          => /\ hs'[c].reply = "AuthFailure_0x14"
             /\ hs'[c].writer_closing
             /\ _load_assigned_ips(db') = _load_assigned_ips(db) ]_vars

\* C23: the step that reads a well-formed control message other than an
\* AuthRequest first on a new connection writes an Error message carrying
\* InvalidMessage (0x01) and ends with the stream closed and no session.
C23_WrongFirstMessage ==
    [][ \A c \in Conns, data \in FirstMessages :
          ( AuthOtherMessage(c, data) /\ unpack(data).res = "ok" )
          => /\ hs'[c].reply = "Error_0x01"
             /\ hs'[c].writer_closing
             /\ ~sess'[c].exists
             /\ UNCHANGED <<db, sessions, sessions_by_ip>> ]_vars

\* C28: every control message carries a version field, and the step that
\* reads an AuthRequest whose version field differs from PROTOCOL_VERSION
\* does not go on with the handshake: no AuthSuccess, no row, no address.
C28_VersionChecked ==
    [][ /\ \A data \in FirstMessages : "version" \in DOMAIN data.payload
        /\ \A c \in Conns, data \in AuthRequests :
              ( AuthRequest(c, data)
                /\ unpack(data).payload.version # PROTOCOL_VERSION )
              => /\ hs'[c].reply # "AuthSuccess"
                 /\ hs'[c].token = NoToken
                 /\ db' = db ]_vars

(***************************************************************************)
(* Claims about address allocation (SpecPool, SpecServer)                  *)
(***************************************************************************)
\* a step of handler c that reads an AuthRequest of a user who authenticates
\* and is below the session limit, so that _assign_ip is called
Allocates(c, u, p) ==
    /\ AuthRead(c, u, p)
    /\ authenticate(u, p) # None
    /\ can_create_session(db, u)

\* with one address left the allocation succeeds and the next one of the
\* same handler's view has no address left
LastAddressThenNone ==
    \A c \in Conns, u \in Usernames, p \in Passwords :
        ( Allocates(c, u, p)
          /\ Cardinality(FreeIndices(hs[c].assigned_ips)) = 1 )
        => /\ hs'[c].reply = "AuthSuccess"
           /\ FreeIndices(hs'[c].assigned_ips) = {}
           /\ authenticate_user(db', hs'[c].assigned_ips, "alice", "secret").res
                 \in {"RuntimeError", "SessionLimitError"}

\* an allocation that finds no address is answered with AuthFailure carrying
\* IP_ALLOCATION_FAILED (0x31) or SERVER_OVERLOADED (0x60), and the stream
\* is closed
ExhaustionReported ==
    \A c \in Conns, u \in Usernames, p \in Passwords :
        ( Allocates(c, u, p) /\ FreeIndices(hs[c].assigned_ips) = {} )
        => /\ hs'[c].reply \in {"AuthFailure_0x31", "AuthFailure_0x60"}
           /\ hs'[c].writer_closing
           /\ db' = db

\* C24: with all client addresses but one in use the next allocation
\* succeeds and the one after it fails, and a handshake whose allocation
\* fails is answered with AuthFailure carrying the IpAllocation or the
\* ServerOverloaded code before the stream is closed.
C24_PoolExhaustion ==
    [][ LastAddressThenNone /\ ExhaustionReported ]_vars

\* C25: the address an allocation returns is the lowest of
\* 10.8.0.2..10.8.0.254 that no active session holds at the moment of the
\* allocation; it is never .0, .1 or .255, and the first client of an empty
\* server gets 10.8.0.2.
C25_LowestFreeAddress ==
    [][ \A c \in Conns, u \in Usernames, p \in Passwords :
          ( Allocates(c, u, p) /\ hs'[c].reply = "AuthSuccess" )
          => LET ip == db'[Len(db')].assigned_ip
                 in_use == _load_assigned_ips(db) IN
             /\ ip \notin in_use
             /\ ip = get_next_client_ip(Lowest(FreeIndices(in_use)))
             /\ ip[4] \in 2..254
             /\ db = <<>> => ip = <<10, 8, 0, 2>> ]_vars

(***************************************************************************)
(* Claims about session ends and shutdown (SpecStop, SpecStopFair,         *)
(* SpecServer)                                                             *)
(***************************************************************************)
\* the persisted row of the session of connection c
RowOf(c) == get_by_token(db, sess[c].token)

\* the row of c's session is terminated, and its virtual IP is assigned
\* only if another active row holds it
Released(c) ==
    /\ RowOf(c) # 0
    /\ ~db[RowOf(c)].is_active
    /\ sess[c].assigned_ip \in _load_assigned_ips(db)
       => \E i \in ActiveRows(db) :
             i # RowOf(c) /\ db[i].assigned_ip = sess[c].assigned_ip

\* C18: a session that has been closed (by the end of its handler after
\* EOF, by the idle cleanup or by stop()) leads to a state in which its
\* persisted row is terminated and its virtual IP is free for a later
\* allocation.
C18_EndedSessionReleasesIp ==
    \A c \in Conns :
        (sess[c].exists /\ ~sess[c].is_active) ~> Released(c)

\* the server has stopped, the session of connection 1 has ended, its row
\* is terminated and no active row holds its virtual IP
C18_Witness ==
    /\ sess[1].exists /\ ~sess[1].is_active
    /\ hs[1].pc = "done"
    /\ Released(1)
    /\ srv.stop = "done"
    /\ sess[1].assigned_ip \notin _load_assigned_ips(db)

\* C19: a session whose persisted row the cleanup task has expired (its TTL
\* has passed) is no longer in the registry once that cleanup run is over,
\* and its stream is closed.
C19_ExpiredSessionEvicted ==
    \A c \in Conns :
        ( sess[c].exists /\ ~db[RowOf(c)].is_active )
        => /\ get_session(sess[c].token) = 0
           /\ hs[c].writer_closing

\* C20: once stop() has completed the listener is closed, the registry is
\* empty, every session is closed and both background tasks have ended.
C20_StoppedIsEmpty ==
    srv.stop = "done"
    => /\ ~srv.listening
       /\ srv.cleanup = "done" /\ srv.statistics = "done"
       /\ DOMAIN sessions = {} /\ DOMAIN sessions_by_ip = {}
       /\ \A c \in Conns : sess[c].exists => ~sess[c].is_active

(***************************************************************************)
(* Claims about the client (checked under SpecClient)                      *)
(***************************************************************************)
\* C10: when the receive loop has ended because of EOF or an I/O error
\* while the client was connected, the connection has been cleaned up and
\* the reconnect controller has received the disconnected event (and, when
\* it is enabled, the task that starts the reconnect loop has been created).
C10_LossIsSignalled ==
    ( task.receive = "done" /\ rxEnd.by \in LossKinds )
    => /\ rxEnd.cleaned
       /\ rxEnd.notified
       /\ tc.writer = "none"

\* a task exists that will make, or is making, a connect attempt
AttemptPending ==
    \/ task.user = "connecting"
    \/ Pending(task.starter)
    \/ task.reconnect \in {"start", "sleep", "connecting"}

\* C11: while auto-reconnect is enabled and has not been cancelled, a failed
\* connect attempt (the user's first one included) is never the last one:
\* once an attempt has failed, a task that makes another attempt exists.
C11_FailedAttemptIsRetried ==
    ( /\ hist.last.outcome \in ConnectOutcomes \ {"ok"}
      /\ ar.is_enabled
      /\ hist.cancel = None )
    => AttemptPending

\* C12: a connect attempt that succeeds inside the reconnect loop resets
\* current_delay to the initial delay and the attempt count to 0, puts the
\* controller in state connected and ends the reconnect task; and the
\* reconnect task starts a connect attempt only after a disconnected event
\* that no successful connect has followed yet.
C12_SuccessEndsLoop ==
    [][ /\ ( task.reconnect = "connecting" /\ ~tc.is_connected
             /\ tc'.is_connected )
           => /\ ar'.current_delay = RECONNECT_INITIAL_DELAY
              /\ ar'.reconnect_attempts = 0
              /\ ar'.state = "connected"
              /\ task'.reconnect = "done"
              /\ ~Pending(task'.starter)
        /\ ( task'.reconnect = "connecting" /\ dialsLeft' < dialsLeft )
           => rxEnd.notified /\ rxEnd.by \in LossKinds
      ]_vars

\* a reconnect loop has slept at least once and then connected
C12_Witness ==
    /\ hist.last = [by |-> "reconnect", outcome |-> "ok"]
    /\ Len(hist.slept) >= 1
    /\ tc.is_connected
    /\ ar.state = "connected"
    /\ ar.current_delay = RECONNECT_INITIAL_DELAY
    /\ task.reconnect = "done"

\* the reconnect task calls connect_func only while the controller is
\* enabled, and a disconnected event received while disabled creates no
\* task
OnlyWhileEnabled ==
    [][ /\ ( task'.reconnect = "connecting" /\ dialsLeft' < dialsLeft )
           => ar.is_enabled
        /\ ( ~ar.is_enabled /\ tc.is_connected /\ ~tc'.is_connected )
           => /\ task'.starter = task.starter
              /\ task'.reconnect = task.reconnect
      ]_vars

\* C13: after disable or stop has cancelled a reconnect task that was not
\* done, and while the controller stays disabled, once that task has ended
\* the controller is in state idle and no connect attempt is pending.
C13_CancelledLoopIsIdle ==
    ( /\ hist.cancel = "loop"
      /\ ~ar.is_enabled
      /\ ~Pending(task.reconnect)
      /\ task.stopper = "none" )
    => ar.state = "idle"

\* C14: while a reconnect loop that has failed n times is sleeping or
\* connecting, current_delay is min(2^n, 30); and in every state
\* current_delay lies between the initial delay and the maximum delay.
C14_BackoffLaw ==
    /\ task.reconnect \in {"sleep", "connecting"}
       => ar.current_delay = Min(2 ^ hist.fails, RECONNECT_MAX_DELAY)
    /\ ar.current_delay >= RECONNECT_INITIAL_DELAY
    /\ ar.current_delay <= RECONNECT_MAX_DELAY

\* a loop whose fifth failure has hit the cap: 2^5 exceeds the maximum
C14_Witness ==
    /\ task.reconnect = "sleep"
    /\ hist.fails = 5
    /\ ar.current_delay = RECONNECT_MAX_DELAY

\* C15: in a reconnect loop whose attempts all fail, the first attempt is
\* made without a sleep before it, and the i-th sleep of the loop lasts
\* min(2^(i-1), 30) seconds: 1, 2, 4, 8, 16, 30, ...
C15_ReconnectSchedule ==
    /\ ( task.reconnect = "connecting" /\ hist.fails = 0 )
       => hist.slept = << >>
    /\ \A i \in DOMAIN hist.slept :
          hist.slept[i] = Min(2 ^ (i - 1), RECONNECT_MAX_DELAY)

\* C16: when the last connect attempt was a successful automatic reconnect
\* and the tunnel is connected (and the user has not disconnected), the
\* state the manager exposes is connected and send_packet forwards.
C16_ReconnectRestoresState ==
    ( /\ hist.last = [by |-> "reconnect", outcome |-> "ok"]
      /\ tc.is_connected
      /\ cm.state # "disconnected" )
    => /\ get_state(cm) = "connected"
       /\ send_packet(cm, tc)

\* C17: while connected the client has written one Ping for every keepalive
\* period of 15 s that has passed, and a connection on which no Pong has
\* arrived 30 s after the first Ping was due is no longer connected.  (No
\* Pong ever arrives: the receive loop has no message that it takes as one.)
C17_Keepalive ==
    tc.is_connected
    => /\ hist.pings = hist.wakes
       /\ hist.wakes * KEEPALIVE_INTERVAL
              < KEEPALIVE_INTERVAL + KEEPALIVE_TIMEOUT

(***************************************************************************)
(* Claims about the send counter (SpecRekey)                               *)
(***************************************************************************)
\* C26: over the life of an AEAD instance, key rotation included, the send
\* counter never goes back and no counter value is carried by two emitted
\* records.
C26_SendCounterNeverReused ==
    [][ /\ enc'["A_send"].send_counter >= enc["A_send"].send_counter
        /\ \A r1 \in wire', r2 \in wire' : r1.hdr = r2.hdr => r1 = r2 ]_vars

\* C27: the records one tunnel has written to its stream carry the send
\* counters 0, 1, 2, ... in this order, with no counter missing or out of
\* place, whatever the number of send_packet calls suspended at the drain.
C27_StreamInCounterOrder ==
    \A i \in DOMAIN tx.buffer :
        /\ tx.buffer[i].hdr = i - 1
        /\ tx.buffer[i].nctr = i - 1

\* C27 witness: two send_packet calls are suspended at the drain at the
\* same time, each with its record on the stream.
C27_Witness ==
    \E k1 \in Senders, k2 \in Senders :
        /\ k1 # k2
        /\ tx.call[k1].pc = "drain"
        /\ tx.call[k2].pc = "drain"
        /\ Len(tx.buffer) >= 2
        /\ enc["A_send"].send_counter = Len(tx.buffer)

(***************************************************************************)
(* Claims about framing (SpecFrame)                                        *)
(***************************************************************************)
\* C29: on the stream frame(X) followed by nothing, or by frame(Y) and a
\* proper prefix of frame(Z), the first unframe returns X and exactly the
\* bytes that followed frame(X), for every payload X of at most 65535
\* bytes.
C29_FramingRoundTrip ==
    fr.calls = 1
    => /\ fr.frame_data = Bytes(fr.X)
       /\ fr.remaining = fr.tail
       /\ fr.stream = fr.tail

\* C29 witness: a payload of the largest frame size, followed by a frame
\* and one byte of the next, has been unframed.
C29_Witness ==
    /\ fr.calls = 1
    /\ Len(fr.X) = MAX_FRAME_SIZE
    /\ fr.tail = frame(<<1, 0>>) \o SubSeq(frame(<<0>>), 1, 1)
    /\ fr.frame_data = Bytes(fr.X)

(***************************************************************************)
(* Claims about the record layer (checked under SpecAead)                  *)
(***************************************************************************)
RecvInst == enc["A_recv"]
SendInst == enc["A_send"]

\* C2: round trip.  A receiving instance fresh from the same master key as
\* the sender, given the first record the sender's encrypt(P) returned,
\* returns P.
C2_RoundTrip ==
    [][ ( /\ last'.op = "decrypt"
          /\ RecvInst = NewHandler(SendInst.master_key)
          /\ last'.rec \in wire
          /\ last'.rec.hdr = 0 )
        => ( last'.res = "ok" /\ last'.pt = last'.rec.pt ) ]_vars

\* C3: no receive counter is accepted twice.  Every counter decrypt has
\* accepted is reported as seen by the replay guard from then on (inside the
\* window by its bit, outside it by its age), and the number of successful
\* decrypts equals the number of distinct counters accepted.
C3_NoCounterAcceptedTwice ==
    /\ \A c \in accepted["A_recv"] : ~_check_replay(RecvInst, c)
    /\ RecvInst.packets_decrypted = Cardinality(accepted["A_recv"])

\* C3 witness: a counter was accepted, the window has since slid past it,
\* and a record carrying it again has just been rejected as a replay.
C3_Witness ==
    /\ last.op = "decrypt"
    /\ last.res = "ReplayAttackError"
    /\ last.rec.hdr \in accepted["A_recv"]
    /\ RecvInst.highest_recv_counter - last.rec.hdr >= REPLAY_WINDOW_SIZE
    /\ Cardinality(accepted["A_recv"]) >= 3

\* C4: replay idempotence.  A record emitted by the peer's encrypt under the
\* same master key is accepted, with its plaintext, the first time its
\* counter is submitted, and fails with ReplayDetected when submitted again.
C4_ReplayIdempotence ==
    [][ ( /\ last'.op = "decrypt"
          /\ RecvInst.master_key = SendInst.master_key
          /\ last'.rec \in wire )
        => IF last'.rec.hdr \in accepted["A_recv"]
           THEN last'.res = "ReplayAttackError"
           ELSE last'.res = "ok" /\ last'.pt = last'.rec.pt ]_vars

\* C30: in every window state (high, bitmap) the replay guard accepts a
\* counter c exactly when c > high, or 0 <= high - c < 64 and bit
\* (high - c) of the bitmap is clear; with high = 63 a counter 0 not seen
\* before is accepted, with high = 64 counter 0 is rejected.
ReplayRule(high, bitmap, c) ==
    \/ c > high
    \/ /\ 0 <= high - c
       /\ high - c < 64
       /\ (high - c) \notin bitmap
C30_ReplayDecisionRule ==
    LET h == enc["A_recv"] IN
    /\ \A c \in Counters :
          _check_replay(h, c)
             <=> ReplayRule(h.highest_recv_counter, h.recv_bitmap, c)
    /\ ( h.highest_recv_counter = 63 /\ 63 \notin h.recv_bitmap )
       => _check_replay(h, 0)
    /\ h.highest_recv_counter = 64 => ~_check_replay(h, 0)
    /\ ( last.op = "decrypt" /\ last.res = "ReplayAttackError" )
       => ~ReplayRule(h.highest_recv_counter, h.recv_bitmap, last.rec.hdr)

\* C30 witness: with high = 63 the counter 0 has just been accepted for the
\* first time, at the far edge of the window.
C30_Witness ==
    /\ enc["A_recv"].highest_recv_counter = 63
    /\ last.op = "decrypt"
    /\ last.rec.hdr = 0
    /\ last.res = "ok"
    /\ 63 \in enc["A_recv"].recv_bitmap

\* C31: the replay window changes only on a successful decrypt.  A decrypt
\* that fails (short record, replay rejection, tag mismatch) leaves
\* highest_recv_counter, recv_bitmap and packets_decrypted as they were, so
\* every record carrying the counter of the failed one is decided afterwards
\* as it would have been before; and a record that verifies, submitted right
\* after a forged record with the same counter failed on its tag, is
\* accepted.
C31_FailedDecryptKeepsWindow ==
    [][ /\ ( last'.op = "decrypt" /\ last'.res # "ok" )
           => /\ RecvInst'.highest_recv_counter = RecvInst.highest_recv_counter
              /\ RecvInst'.recv_bitmap = RecvInst.recv_bitmap
              /\ RecvInst'.packets_decrypted = RecvInst.packets_decrypted
              /\ \A r \in ArrivingRecords(RecvInst) :
                    r.hdr = last'.rec.hdr
                       => decrypt(RecvInst', r).res = decrypt(RecvInst, r).res
        /\ ( /\ last.op = "decrypt"
             /\ last.res = "DecryptionError"
             /\ last.rec.len >= MIN_RECORD_SIZE
             /\ last'.op = "decrypt"
             /\ last'.rec.hdr = last.rec.hdr
             /\ TagVerifies(RecvInst, last'.rec, 0) )
           => ( last'.res = "ok" /\ last'.pt = last'.rec.pt ) ]_vars

\* C31 witness: a record whose counter header was overwritten with a counter
\* one window ahead has just failed on its tag, after a record had been
\* accepted, and the window still stands where the accepted record left it.
C31_Witness ==
    /\ last.op = "decrypt"
    /\ last.res = "DecryptionError"
    /\ last.rec.hdr = REPLAY_WINDOW_SIZE
    /\ last.rec.nctr # last.rec.hdr
    /\ RecvInst.packets_decrypted >= 1
    /\ RecvInst.highest_recv_counter < REPLAY_WINDOW_SIZE
    /\ _check_replay(RecvInst, REPLAY_WINDOW_SIZE)

(***************************************************************************)
(* Claims about idle eviction (SpecServer)                                 *)
(***************************************************************************)
\* connection c's session is in neither index
Unregistered(m, mi, c) ==
    /\ \A t \in DOMAIN m : m[t] # c
    /\ \A ip \in DOMAIN mi : mi[ip] # c

\* C32: cleanup_inactive_sessions removes and closes every registered
\* session idle for longer than the timeout: afterwards it is in neither
\* index, its writer is closed and its active flag is cleared.  Sessions
\* that are active and within the timeout stay registered, under their token
\* and under their virtual IP as before the call.  The number returned is
\* the number of sessions that left the registry.
C32_IdleSessionsEvicted ==
    [][ \A idle \in SUBSET Tokens, expired \in SUBSET (1..NConn) :
          CleanupTask(idle, expired)
          => /\ \A t \in idle :
                  /\ Unregistered(sessions', sessions_by_ip', sessions[t])
                  /\ hs'[sessions[t]].writer_closing
                  /\ ~sess'[sessions[t]].is_active
             /\ \A t \in DOMAIN sessions \ idle :
                  sess[sessions[t]].is_active
                  => /\ t \in DOMAIN sessions'
                     /\ sessions'[t] = sessions[t]
                     /\ \A ip \in DOMAIN sessions_by_ip :
                           sessions_by_ip[ip] = sessions[t]
                           => /\ ip \in DOMAIN sessions_by_ip'
                              /\ sessions_by_ip'[ip] = sessions[t]
             /\ cleanup_inactive_sessions(idle)
                   = Cardinality(DOMAIN sessions \ DOMAIN sessions') ]_vars

(***************************************************************************)
(* Claims about the stream buffer (SpecChunk)                              *)
(***************************************************************************)
\* the frames extract_frame returns, called until it finds none, on a
\* buffer holding the bytes b
RECURSIVE Extracted(_)
Extracted(b) ==
    LET r == extract_frame(b) IN
    IF r.frame_data.is_none THEN <<>>
    ELSE <<r.frame_data.bytes>> \o Extracted(r.buffer)

\* C33: chunking independence.  However the stream of concatenated frames
\* is split into append calls, and wherever extract_frame is called in
\* between, the frames returned so far followed by the frames still to come
\* from the rest of the stream are the frames of the stream given in one
\* piece, which are the payloads that were framed; once the whole stream is
\* in and a call has found no frame, all of them have been returned.  A
\* call that finds no complete frame returns None and leaves the buffer as
\* it was.
C33_ChunkingIndependence ==
    /\ [] ( /\ sb.out \o Extracted(sb.buffer \o sb.pending)
                  = Extracted(Concat([i \in 1..Len(sb.frames)
                                        |-> frame(sb.frames[i])]))
            /\ sb.out \o Extracted(sb.buffer \o sb.pending) = sb.frames
            /\ ( sb.pending = <<>> /\ Extracted(sb.buffer) = <<>> )
               => sb.out = sb.frames )
    /\ [][ ( sb'.appends = sb.appends /\ sb'.frame_data.is_none )
           => sb'.buffer = sb.buffer ]_vars

\* C33 witness: a stream of MaxStreamFrames frames came in one byte per
\* append call, every frame has been returned, and the last call found an
\* empty buffer.
C33_Witness ==
    /\ Len(sb.frames) = MaxStreamFrames
    /\ sb.frames[1] # <<>>
    /\ sb.appends = Len(Concat([i \in 1..Len(sb.frames) |-> frame(sb.frames[i])]))
    /\ sb.pending = <<>>
    /\ sb.out = sb.frames
    /\ sb.frame_data.is_none

(***************************************************************************)
(* Claims about the data-plane loop (SpecData)                             *)
(***************************************************************************)
\* C34: a frame of declared length 0 at the head of a session's buffer is
\* extracted and consumed by the framer and is then handed to decrypt, which
\* rejects it with DecryptionError (it is shorter than 24 bytes).
C34_EmptyRecordRejectedByAead ==
    [][ \A c \in Conns :
          ( /\ hs[c].pc = "drain"
            /\ sess[c].read_buffer # <<>>
            /\ Head(sess[c].read_buffer).len = 0
            /\ hs'[c] # hs[c] )
          => /\ sess'[c].read_buffer = Tail(sess[c].read_buffer)
             /\ srvLast'.conn = c
             /\ srvLast'.n = srvLast.n + 1
             /\ srvLast'.rec = Head(sess[c].read_buffer)
             /\ srvLast'.res = "DecryptionError" ]_vars

\* C35: drain completeness.  Whenever the data-plane loop of a session goes
\* back from draining its buffer to reading from the stream, the buffer
\* holds no complete frame: every frame received so far has been extracted
\* and processed.
C35_DrainCompleteness ==
    [][ \A c \in Conns :
          ( hs[c].pc = "drain" /\ hs'[c].pc = "recv" )
          => sess'[c].read_buffer = <<>> ]_vars

(***************************************************************************)
(* Claims about control-message decoding (SpecCodec)                       *)
(***************************************************************************)
\* C36: decoding classifies its failures distinctly: a wrong magic prefix
\* fails with InvalidMessage, a declared payload length exceeding the
\* available bytes with ProtocolError, a type byte outside the enumeration
\* with UnknownMessageType; a well-formed message decodes to the type and
\* the payload map that were packed.
C36_DecodeFailuresDistinct ==
    codec.called
    => /\ codec.kind = "magic" => codec.got.res = "InvalidMessage"
       /\ codec.kind = "truncated" => codec.got.res = "ProtocolError"
       /\ codec.kind = "type" => codec.got.res = "UnknownMessageType"
       /\ codec.kind = "none"
          => /\ codec.got.res = "ok"
             /\ codec.got.message_type = codec.data.message_type
             /\ codec.got.payload = codec.data.payload

(***************************************************************************)
(* Claims about the reconnect controller (SpecReconnect)                   *)
(***************************************************************************)
\* C37: at most one reconnect loop exists at any time.  While the reconnect
\* task of a controller is not done (created and not yet run, asleep
\* between attempts, inside a connect attempt, or cancelled and not yet
\* ended), no step creates a new loop task: a start_reconnect call, from
\* the task a disconnected event made or from the application, leaves the
\* task where it is, so the attempts of the loop follow one another.
C37_OneReconnectLoop ==
    [][ Pending(task.reconnect)
        => /\ task.reconnect # "start" => task'.reconnect # "start"
           /\ ( StarterRun \/ StartReconnect )
              => ( task'.reconnect = task.reconnect /\ ar' = ar
                   /\ dialsLeft' = dialsLeft ) ]_vars

\* C37 witness: a start_reconnect call has found the loop in progress, and
\* the loop, after a failed attempt, is inside its next connect attempt.
C37_Witness ==
    /\ hist.refused
    /\ task.reconnect = "connecting"
    /\ hist.fails >= 1
    /\ ar.is_enabled

(***************************************************************************)
(* Claims about a requested disconnect (SpecClient)                        *)
(***************************************************************************)
\* C38: once ConnectionManager.disconnect() has completed (the manager is
\* DISCONNECTED) the client stays disconnected until connect() is called
\* again: the tunnel is not connected, no connect attempt starts and no
\* tunnel becomes connected, also when disconnect() was issued in state
\* RECONNECTING with a reconnect loop running.
C38_DisconnectIsFinal ==
    /\ [] ( cm.state = "disconnected" => ~tc.is_connected )
    /\ [][ ( cm.state = "disconnected" /\ cm'.state = "disconnected" )
           => /\ dialsLeft' = dialsLeft
              /\ ~tc'.is_connected ]_vars

(***************************************************************************)
(* Claims about failed handshakes after the session row (SpecServer)       *)
(***************************************************************************)
\* C39: no orphaned sessions.  Every active row of the sessions table, and
\* with it every allocated virtual IP, belongs to a connection whose
\* handler is still at work on it: a handler that has ended, whether its
\* handshake failed after the row was persisted or its session ended, has
\* left its row terminated.
C39_NoOrphanedSessions ==
    \A i \in ActiveRows(db) :
        \E c \in Conns :
            /\ hs[c].token = db[i].token
            /\ hs[c].pc # "done"

(***************************************************************************)
(* Claims about refused sends (SpecResend)                                 *)
(***************************************************************************)
\* C40: a send_packet call on a tunnel that is not connected (which
\* includes every tunnel whose AEAD layer is not installed yet), or with an
\* invalid IP packet, returns False and consumes no send counter, writes
\* nothing to the stream and leaves bytes_sent and packets_sent as they
\* were; and packets_sent never exceeds the send counter of the AEAD layer.
C40_RefusedSendHasNoEffect ==
    /\ [][ \A k \in Senders :
             ( SendRefused(k) \/ \E packet \in Packets : SendInvalid(k, packet) )
             => /\ tx'.call[k].result = "False"
                /\ enc' = enc
                /\ tx'.buffer = tx.buffer
                /\ tx'.bytes_sent = tx.bytes_sent
                /\ tx'.packets_sent = tx.packets_sent ]_vars
    /\ [] ( tx.packets_sent <= enc["A_send"].send_counter )

====
